---- MODULE Spec2Model ----
(***************************************************************************)
(* Verification model of the ensemble-transform weight engines of          *)
(* torch-assimilate (pytassim): the spectral helpers evd / rev_evd, the    *)
(* ETKF weight module and the IEnKS transform / bundle modules.            *)
(*                                                                         *)
(* Numbers.  The code works on floating point tensors; the model uses      *)
(* exact arithmetic, so that every equation of the claims is decided       *)
(* exactly instead of "to tolerance".  A number is a finite sum of         *)
(* rational multiples of square roots of square-free positive integers     *)
(*      x = SUM  (n/d) * sqrt(r)                                           *)
(* kept as the set of its non-zero terms [r, n, d] (one term per radicand, *)
(* n/d in lowest terms, d > 0).  The representation is canonical: two      *)
(* numbers are equal exactly when the sets are equal.  These numbers are   *)
(* closed under +, -, * and contain sqrt(q) and 1/sqrt(q) of every         *)
(* rational q > 0, which is all that the engines need when the eigenvalues *)
(* of their operands are rational.                                         *)
(***************************************************************************)
EXTENDS Integers, Sequences, FiniteSets, TLC

\* value bound to the parameter of body: a local variable of the code
With(value, body(_)) == body(value)

Abs(x) == IF x < 0 THEN -x ELSE x

RECURSIVE Gcd(_, _)
Gcd(a, b) == IF b = 0 THEN a ELSE Gcd(b, a % b)

\* The rational n/d (d # 0) in lowest terms with a positive denominator.
Q(n, d) ==
    LET s == IF d < 0 THEN -1 ELSE 1
        g == Gcd(Abs(n), Abs(d))
    IN  [n |-> (s * n) \div g, d |-> (s * d) \div g]

QAdd(a, b) == Q(a.n * b.d + b.n * a.d, a.d * b.d)
QMul(a, b) == Q(a.n * b.n, a.d * b.d)
QLess(a, b) == a.n * b.d < b.n * a.d

\* ---- numbers ------------------------------------------------------------
Zero == {}
NQ(q) == IF q.n = 0 THEN {} ELSE {[r |-> 1, n |-> q.n, d |-> q.d]}
NInt(i) == NQ(Q(i, 1))
NRat(n, d) == NQ(Q(n, d))
One == NInt(1)

\* Floating point infinity and not-a-number, the results of 1/0 and 0*inf.
Inf == {[r |-> 0, n |-> 1, d |-> 0]}
NaN == {[r |-> 0, n |-> 0, d |-> 0]}
IsFinite(x) == \A t \in x : t.r > 0

Coef(x, rad) ==
    IF \E t \in x : t.r = rad
    THEN LET t == CHOOSE u \in x : u.r = rad IN [n |-> t.n, d |-> t.d]
    ELSE [n |-> 0, d |-> 1]

IsRational(x) == \A t \in x : t.r = 1
AsQ(x) == Coef(x, 1)

NAdd(x, y) ==
    IF ~IsFinite(x) \/ ~IsFinite(y)
    THEN (IF x = NaN \/ y = NaN THEN NaN ELSE Inf)
    ELSE LET rads == {t.r : t \in x \cup y}
             c(rad) == QAdd(Coef(x, rad), Coef(y, rad))
         IN  {[r |-> rad, n |-> c(rad).n, d |-> c(rad).d] :
                 rad \in {rr \in rads : c(rr).n # 0}}

NNeg(x) == {[r |-> t.r, n |-> -t.n, d |-> t.d] : t \in x}
NSub(x, y) == NAdd(x, NNeg(y))

\* The product of two terms: sqrt(a)*sqrt(b) = g*sqrt(a*b/g^2), g = gcd(a,b),
\* for square-free a and b.
TermMul(s, t) ==
    LET g == Gcd(s.r, t.r)
        q == Q(s.n * t.n * g, s.d * t.d)
    IN  [r |-> (s.r \div g) * (t.r \div g), n |-> q.n, d |-> q.d]

RECURSIVE SumTerms(_)
SumTerms(ts) ==
    IF ts = {} THEN Zero
    ELSE LET p == CHOOSE u \in ts : TRUE
         IN  NAdd({TermMul(p[1], p[2])}, SumTerms(ts \ {p}))

NMul(x, y) ==
    IF ~IsFinite(x) \/ ~IsFinite(y)
    THEN (IF x = NaN \/ y = NaN \/ x = Zero \/ y = Zero THEN NaN ELSE Inf)
    ELSE IF Cardinality(x) = 1 /\ Cardinality(y) = 1
    THEN {TermMul(CHOOSE s \in x : TRUE, CHOOSE t \in y : TRUE)}
    ELSE SumTerms(x \X y)

\* The largest s with s*s dividing m (m >= 1).
RECURSIVE SquarePart(_, _, _)
SquarePart(m, s, best) ==
    IF s * s > m THEN best
    ELSE SquarePart(m, s + 1, IF m % (s * s) = 0 THEN s ELSE best)

\* sqrt of a rational q >= 0: sqrt(n/d) = sqrt(n*d)/d = (s/d)*sqrt(r).
QSqrt(q) ==
    IF q.n = 0 THEN Zero
    ELSE LET m == q.n * q.d
             s == SquarePart(m, 1, 1)
             c == Q(s, q.d)
         IN  {[r |-> m \div (s * s), n |-> c.n, d |-> c.d]}

\* torch.sqrt on a number; the engines only take roots of rationals.
NSqrt(x) ==
    IF ~IsFinite(x) THEN x
    ELSE IF IsRational(x) /\ AsQ(x).n < 0 THEN NaN
    ELSE QSqrt(AsQ(CHOOSE y \in {x} : IsRational(y)))

\* 1/x for a single-term number (c*sqrt(r))^-1 = sqrt(r)/(c*r); 1/0 = inf.
NInv(x) ==
    IF x = Zero THEN Inf
    ELSE IF ~IsFinite(x) THEN (IF x = NaN THEN NaN ELSE Zero)
    ELSE LET t == CHOOSE u \in x : x = {u}
             c == Q(t.d, t.n * t.r)
         IN  {[r |-> t.r, n |-> c.n, d |-> c.d]}

NDiv(x, y) == NMul(x, NInv(y))

\* Order of two rational numbers.
NLess(x, y) == QLess(AsQ(x), AsQ(y))

\* ---- tensors ------------------------------------------------------------
\* A 2-d tensor is [nr, nc, v]: v[i][j] is the entry of row i and column j.
\* A 1-d tensor is a sequence of numbers.
\* <<f(1), ..., f(n)>>
RECURSIVE Tab(_, _)
Tab(f(_), n) == IF n = 0 THEN <<>> ELSE Append(Tab(f, n - 1), f(n))

Mat(nr, nc, f(_, _)) ==
    LET row(i) == LET e(j) == f(i, j) IN Tab(e, nc)
    IN  [nr |-> nr, nc |-> nc, v |-> Tab(row, nr)]

RECURSIVE NSum(_)
NSum(s) == IF s = <<>> THEN Zero ELSE NAdd(Head(s), NSum(Tail(s)))

\* torch.mm(A, B) for A.nc = B.nr
MatMul(A, B) ==
    LET e(i, j) == LET p(k) == NMul(A.v[i][k], B.v[k][j]) IN NSum(Tab(p, A.nc))
    IN  Mat(A.nr, B.nc, e)

\* tensor.t()
Transpose(A) == LET e(i, j) == A.v[j][i] IN Mat(A.nc, A.nr, e)

\* torch.diagflat(vec)
DiagFlat(vec) ==
    LET e(i, j) == IF i = j THEN vec[i] ELSE Zero
    IN  Mat(Len(vec), Len(vec), e)

Identity(k) == LET e(i, j) == IF i = j THEN One ELSE Zero IN Mat(k, k, e)

MatAdd(A, B) == LET e(i, j) == NAdd(A.v[i][j], B.v[i][j]) IN Mat(A.nr, A.nc, e)
MatScale(c, A) == LET e(i, j) == NMul(c, A.v[i][j]) IN Mat(A.nr, A.nc, e)

\* A matrix of integers / of rationals given as <<n, d>> pairs, as a tensor.
IntMat(rows, nc) ==
    LET e(i, j) == NInt(rows[i][j]) IN Mat(Len(rows), nc, e)

\* ---- torch.symeig -------------------------------------------------------
\* torch.symeig(tensor, eigenvectors=True) returns the eigenvalues in
\* ascending order and a matrix whose columns are orthonormal eigenvectors.
\* The sign of each eigenvector and the basis of a repeated eigenvalue's
\* eigenspace are not fixed by its contract, so Symeig is the SET of results it
\* may return.  The eigenvectors are searched among the integer directions
\* with entries in EigEntries; the operands are rational matrices with such
\* an eigenbasis (IsDecomposable).
EigEntries == {-1, 0, 1}

RECURSIVE IntVecs(_)
IntVecs(n) ==
    IF n = 0 THEN {<<>>}
    ELSE {Append(v, e) : v \in IntVecs(n - 1), e \in EigEntries}

RECURSIVE GcdSeq(_)
GcdSeq(v) == IF v = <<>> THEN 0 ELSE Gcd(Abs(Head(v)), GcdSeq(Tail(v)))

Directions(n) == {v \in IntVecs(n) : GcdSeq(v) = 1}

IntDot(u, v) == LET RECURSIVE D(_)
                    D(i) == IF i = 0 THEN 0 ELSE u[i] * v[i] + D(i - 1)
                IN  D(Len(u))

\* M*v for an integer vector v, and the Rayleigh quotient (v.Mv)/(v.v)
MatVec(M, v) ==
    LET e(i) == LET p(j) == NMul(M.v[i][j], NInt(v[j])) IN NSum(Tab(p, M.nc))
    IN  Tab(e, M.nr)
Rayleigh(M, v) ==
    LET Mv == MatVec(M, v)
        p(i) == NMul(NInt(v[i]), Mv[i])
    IN  NDiv(NSum(Tab(p, M.nr)), NInt(IntDot(v, v)))

\* The pairs <<v, lambda>> of a candidate direction v with M*v = lambda*v
EigPairs(M) ==
    LET pair(v) == <<v, MatVec(M, v), Rayleigh(M, v)>>
        cands == {pair(v) : v \in Directions(M.nr)}
    IN  {<<c[1], c[3]>> : c \in
            {c \in cands :
                /\ IsRational(c[3])
                /\ \A i \in 1..M.nr : c[2][i] = NMul(c[3], NInt(c[1][i]))}}

\* The orthogonal eigenbases <<<<v_1, l_1>>, ..., <<v_n, l_n>>>> with
\* ascending eigenvalues, grown from the partial bases of length len.
RECURSIVE EigBases(_, _, _, _)
EigBases(n, ev, len, partial) ==
    IF len = n THEN partial
    ELSE EigBases(n, ev, len + 1,
           UNION {{Append(b, p) : p \in
                     {p \in ev :
                        /\ \A i \in 1..len : IntDot(b[i][1], p[1]) = 0
                        /\ len > 0 => ~NLess(p[2], b[len][2])}} :
                  b \in partial})

\* The result of symeig for the eigenbasis b: eigenvalues and the matrix of
\* the normalised eigenvectors v_i / |v_i| as columns.
EigResult(b) ==
    LET n == Len(b)
        norm(j) == NInv(NSqrt(NInt(IntDot(b[j][1], b[j][1]))))
        norms == Tab(norm, n)
        e(i, j) == NMul(NInt(b[j][1][i]), norms[j])
        lam(j) == b[j][2]
    IN  [evals |-> Tab(lam, n), evects |-> Mat(n, n, e)]

Symeig(M) == {EigResult(b) : b \in EigBases(M.nr, EigPairs(M), 0, {<<>>})}

IsDecomposable(M) == EigBases(M.nr, EigPairs(M), 0, {<<>>}) # {}

\* ---- pytassim.assimilation.utils ----------------------------------------
\* evals.clamp(min=0)
Clamp0_none(x) == x
Clamp0(x) == IF IsFinite(x) /\ IsRational(x) /\ AsQ(x).n < 0 THEN Zero ELSE x

\* evd(tensor, reg_value), with eig the value torch.symeig returned for
\* tensor: the 4-tuple <<evals, evects, evals_inv, evects_inv>>.
evd(eig, reg_value) ==
    LET n == Len(eig.evals)
        shifted(i) == NAdd(Clamp0(eig.evals[i]), reg_value)
    IN  With(Tab(shifted, n), LAMBDA evals :
            LET inverted(i) == NDiv(One, evals[i])
            IN  <<evals, eig.evects, Tab(inverted, n), Transpose(eig.evects)>>)

\* rev_evd(evals, evects, evects_inv)
rev_evd_inner(evals, evects, evects_inv) ==
    MatMul(MatMul(evects_inv, DiagFlat(evals)), evects)

rev_evd_half(evals, evects, evects_inv) ==
    MatMul(evects, DiagFlat(evals))

rev_evd(evals, evects, evects_inv) ==
    LET diag_flat_evals == DiagFlat(evals)
        r1 == MatMul(evects, diag_flat_evals)
    IN  MatMul(r1, evects_inv)

\* A call rev_evd(*args): Python binds the positional arguments to the three
\* parameters of rev_evd and raises TypeError for any other number of them.
Call_rev_evd(args) ==
    IF Len(args) # 3 THEN [raised |-> "TypeError"]
    ELSE [raised |-> "", value |-> rev_evd(args[1], args[2], args[3])]

\* ---- ETKFWeightsModule --------------------------------------------------
\* tensor.squeeze() of a (k x 1) tensor with k >= 2: the 1-d tensor of length k
Squeeze(A) == LET e(i) == A.v[i][1] IN Tab(e, A.nr)

\* vec + M for a 1-d tensor vec of length M.nc: torch broadcasting aligns the
\* trailing dimension, so vec[j] is added to every entry of COLUMN j.
BroadcastAdd(vec, M) ==
    LET e(i, j) == NAdd(vec[j], M.v[i][j]) IN Mat(M.nr, M.nc, e)

\* reg_value = (ens_size-1) / self._inf_factor
RegValue_times(ens_size, inf_factor) == NMul(NInt(ens_size - 1), inf_factor)
RegValue_k(ens_size, inf_factor) == NDiv(NInt(ens_size), inf_factor)
RegValue(ens_size, inf_factor) == NDiv(NInt(ens_size - 1), inf_factor)

\* kernel_perts = torch.mm(normed_perts, normed_perts.t())
KernelPerts(normed_perts) == MatMul(normed_perts, Transpose(normed_perts))

\* kernel_obs = torch.mm(normed_perts, normed_obs.t()); torch.mm raises a
\* RuntimeError when the inner dimensions differ.
MmRaises_cols(A, B) == A.nc # B.nc
MmRaises(A, B) == A.nc # B.nr
KernelObs(normed_perts, normed_obs) == MatMul(normed_perts, Transpose(normed_obs))

\* w_mean = torch.mm(cov_analysed, kernel_obs).squeeze()
WMean_nocov(cov_analysed, kernel_obs) == Squeeze(kernel_obs)
WMean(cov_analysed, kernel_obs) == Squeeze(MatMul(cov_analysed, kernel_obs))

\* square_root_einv = ((ens_size - 1) * evals_inv).sqrt()
SquareRootEinv_noscale(ens_size, evals_inv) ==
    LET root(i) == NSqrt(evals_inv[i]) IN Tab(root, ens_size)
SquareRootEinv(ens_size, evals_inv) ==
    LET root(i) == NSqrt(NMul(NInt(ens_size - 1), evals_inv[i]))
    IN  Tab(root, ens_size)

\* weights = w_mean + w_perts
Weights_minus(w_mean, w_perts) == BroadcastAdd(w_mean, MatScale(NInt(-1), w_perts))
Weights(w_mean, w_perts) == BroadcastAdd(w_mean, w_perts)

\* ETKFWeightsModule.forward(normed_perts, normed_obs) of a module whose
\* _inf_factor is inf_factor; eig is what torch.symeig returns for
\* kernel_perts.  The result records the exception raised ("" for none) and
\* the decompositions executed before the return or the raise.
forward(inf_factor, normed_perts, normed_obs, eig) ==
    With(normed_perts.nr, LAMBDA ens_size :
    With(evd(eig, RegValue(ens_size, inf_factor)), LAMBDA dec :
    With(rev_evd(dec[3], dec[2], dec[4]), LAMBDA cov_analysed :
    With(WMean(cov_analysed, KernelObs(normed_perts, normed_obs)), LAMBDA w_mean :
    With(rev_evd(SquareRootEinv(ens_size, dec[3]), dec[2], dec[4]), LAMBDA w_perts :
        IF MmRaises(normed_perts, Transpose(normed_obs))
        THEN [raised |-> "RuntimeError", calls |-> <<"evd">>]
        ELSE [raised |-> "", calls |-> <<"evd">>,
              weights |-> Weights(w_mean, w_perts), w_mean |-> w_mean,
              w_perts |-> w_perts, cov_analysed |-> cov_analysed])))))

\* ---- torch.svd and pytassim.core.utils --------------------------------
\* torch.svd(M) of a square M returns U, S, V with M = U diag(S) V^T, the
\* columns of U and of V orthonormal and S >= 0 in descending order.  As for
\* symeig, signs and the bases of repeated or zero singular values are free:
\* Svd is the set of results.  V is an eigenbasis of M^T M, u_i = M v_i / s_i
\* for s_i > 0, and the remaining columns of U are an orthonormal basis of the
\* null space of M^T.
Reverse(b) == LET e(i) == b[Len(b) + 1 - i] IN Tab(e, Len(b))

NullPairs(M) ==
    {<<d, Zero>> : d \in
        {d \in Directions(M.nr) : \A i \in 1..M.nr : MatVec(M, d)[i] = Zero}}

SvdResult(M, vb, ub0) ==
    LET n == M.nr
        sv(i) == NSqrt(vb[i][2])
        norm(d) == NInv(NSqrt(NInt(IntDot(d, d))))
        vnorm(j) == norm(vb[j][1])
        mv(j) == MatVec(M, vb[j][1])
    IN  With(Cardinality({i \in 1..n : vb[i][2] # Zero}), LAMBDA rank :
        With(Tab(sv, n), LAMBDA s :
        With(Tab(vnorm, n), LAMBDA vnorms :
        With(Tab(mv, n), LAMBDA mvs :
            LET ve(i, j) == NMul(NInt(vb[j][1][i]), vnorms[j])
                ue(i, j) ==
                    IF j <= rank
                    THEN NMul(NMul(mvs[j][i], vnorms[j]), NInv(s[j]))
                    ELSE With(ub0[j - rank][1], LAMBDA d : NMul(NInt(d[i]), norm(d)))
            IN  [u |-> Mat(n, n, ue), s |-> s, v |-> Mat(n, n, ve)]))))

Svd(M) ==
    LET MtM == MatMul(Transpose(M), M)
        vbs == {Reverse(b) : b \in EigBases(M.nr, EigPairs(MtM), 0, {<<>>})}
        rank(vb) == Cardinality({i \in 1..M.nr : vb[i][2] # Zero})
    IN  UNION {{SvdResult(M, vb, ub0) :
                   ub0 \in EigBases(M.nr - rank(vb), NullPairs(Transpose(M)), 0, {<<>>})} :
               vb \in vbs}

\* svd(tensor, reg_value) with usv the value of torch.svd: <<u, s, v>>
svd(usv, reg_value) ==
    LET shifted(i) == NAdd(usv.s[i], reg_value)
    IN  <<usv.u, Tab(shifted, Len(usv.s)), usv.v>>

\* rev_svd(u, s, v) = u diag(s) v^T
rev_svd(u, s, v) == MatMul(MatMul(u, DiagFlat(s)), Transpose(v))

\* matrix_product(x, y) = x y^T
matrix_product(x, y) == MatMul(x, Transpose(y))

\* diagonal_add(tensor, value): value added to every diagonal entry
diagonal_add(tensor, value) ==
    LET e(i, j) == IF i = j THEN NAdd(tensor.v[i][j], value) ELSE tensor.v[i][j]
    IN  Mat(tensor.nr, tensor.nc, e)

\* BaseModule._test_sizes(normed_perts, normed_obs): the observation
\* dimensions must agree
TestSizesRaises(normed_perts, normed_obs) == normed_perts.nc # normed_obs.nc

\* BaseModule._view_as_2d(tensor): a 2-d tensor is returned as it is
view_as_2d(tensor) == tensor

\* ---- IEnKSTransformModule / IEnKSBundleModule ---------------------------
\* tensor.mean(dim=1, keepdim=True): the (k x 1) tensor of the row means
RowMean(A) ==
    LET e(i, j) == LET c(l) == A.v[i][l]
                   IN  NDiv(NSum(Tab(c, A.nc)), NInt(A.nc))
    IN  Mat(A.nr, 1, e)

\* A + B or A - B for a (k x 1) tensor B: B[i] is broadcast along row i
ColBroadcastAdd(B, A) ==
    LET e(i, j) == NAdd(B.v[i][1], A.v[i][j]) IN Mat(A.nr, A.nc, e)
ColBroadcastSub(A, B) ==
    LET e(i, j) == NSub(A.v[i][j], B.v[i][1]) IN Mat(A.nr, A.nc, e)

split_weights_nodiag(weights, ens_size) ==
    With(RowMean(weights), LAMBDA weights_mean :
        <<weights_mean, ColBroadcastSub(weights, weights_mean)>>)

\* _split_weights(weights, ens_size) = <<weights_mean, weights_perts>>
split_weights(weights, ens_size) ==
    With(diagonal_add(weights, NInt(-1)), LAMBDA weights_deviation :
    With(RowMean(weights_deviation), LAMBDA weights_mean :
        <<weights_mean, ColBroadcastSub(weights, weights_mean)>>))

\* _decompose_weights(weights, ens_size) = <<w_mean, w_perts_inv, w_prec>>,
\* with usv the value of torch.svd for w_perts
decompose_weights(weights, ens_size, usv) ==
    With(svd(usv, Zero), LAMBDA dec :
    With(LET inv(i) == NDiv(One, dec[2][i]) IN Tab(inv, Len(dec[2])), LAMBDA s_inv :
    With(LET sq(i) == NMul(s_inv[i], s_inv[i]) IN Tab(sq, Len(s_inv)), LAMBDA s_prec :
        <<split_weights(weights, ens_size)[1],
          Transpose(rev_svd(dec[1], s_inv, dec[3])),
          MatScale(NInt(ens_size - 1), rev_svd(dec[1], s_prec, dec[1]))>>)))

get_dh_dw_times_epsilon(kind, epsilon, normed_perts, weights_perts_inv) ==
    IF kind = "bundle"
    THEN MatScale(epsilon, normed_perts)
    ELSE MatMul(weights_perts_inv, normed_perts)

\* _get_dh_dw(normed_perts, weights_perts_inv) of the transform module and
\* of the bundle module
get_dh_dw(kind, epsilon, normed_perts, weights_perts_inv) ==
    IF kind = "bundle"
    THEN MatScale(NInv(epsilon), normed_perts)
    ELSE MatMul(weights_perts_inv, normed_perts)

\* _get_gradient(w_mean, dh_dw, normed_obs, ens_size)
get_gradient(w_mean, dh_dw, normed_obs, ens_size) ==
    LET dlobs_dh == MatScale(NInt(-1), normed_obs)
        grad_obs == matrix_product(dh_dw, dlobs_dh)
        grad_back == MatScale(NInt(ens_size - 1), w_mean)
    IN  MatAdd(grad_back, grad_obs)

\* updated_prec of _update_covariance
UpdatedPrec_undamped(tau, w_prec, dh_dw, ens_size) ==
    MatAdd(w_prec, diagonal_add(matrix_product(dh_dw, dh_dw), NInt(ens_size - 1)))
UpdatedPrec(tau, w_prec, dh_dw, ens_size) ==
    LET new_prec == diagonal_add(matrix_product(dh_dw, dh_dw), NInt(ens_size - 1))
    IN  MatAdd(MatScale(NSub(One, tau), w_prec), MatScale(tau, new_prec))

\* _update_covariance(w_prec, dh_dw, ens_size) = <<weights_cov, weights_perts>>,
\* with usv the value of torch.svd for updated_prec
update_covariance(ens_size, usv) ==
    With(svd(usv, Zero), LAMBDA dec :
    With(LET inv(i) == NDiv(One, dec[2][i]) IN Tab(inv, Len(dec[2])), LAMBDA s_inv :
    With(LET root(i) == NSqrt(NMul(s_inv[i], NInt(ens_size - 1)))
         IN  Tab(root, Len(s_inv)), LAMBDA s_perts :
        <<rev_svd(dec[1], s_inv, dec[3]), rev_svd(dec[1], s_perts, dec[3])>>)))

\* _update_weights(weights, normed_perts, normed_obs): the set of the pairs
\* <<w_mean, w_perts>> it may return, one for every value torch.svd may return
\* for w_perts and for updated_prec
update_weights(kind, tau, epsilon, weights, perts, obs) ==
    LET ens_size == weights.nr
    IN  UNION {
          With(get_dh_dw(kind, epsilon, perts, d[2]), LAMBDA dh_dw :
          With(get_gradient(d[1], dh_dw, obs, ens_size), LAMBDA grad :
              {With(update_covariance(ens_size, usv), LAMBDA cp :
                   <<MatAdd(d[1], MatScale(NNeg(tau), MatMul(cp[1], grad))), cp[2]>>) :
                  usv \in Svd(UpdatedPrec(tau, d[3], dh_dw, ens_size))})) :
            d \in {decompose_weights(weights, ens_size, usv) :
                      usv \in Svd(split_weights(weights, ens_size)[2])}}

\* the guard of forward: normed_perts.shape[-1] > 0
HasObs_always(perts) == perts.nc >= 0
HasObs(perts) == perts.nc > 0

\* IEnKSTransformModule.forward(weights, normed_perts, normed_obs) (and the
\* bundle module, which inherits it): the set of its possible outcomes.
ienks_forward(kind, tau, epsilon, weights, perts, obs) ==
    IF TestSizesRaises(perts, obs)
    THEN {[raised |-> "ValueError", calls |-> <<>>]}
    ELSE IF HasObs(perts)
    THEN {[raised |-> "", calls |-> <<"svd", "svd">>,
           weights |-> ColBroadcastAdd(wp[1], wp[2])] :
             wp \in update_weights(kind, tau, epsilon, view_as_2d(weights),
                                   view_as_2d(perts), view_as_2d(obs))}
    ELSE {[raised |-> "", calls |-> <<>>, weights |-> view_as_2d(weights)]}

\* ---- inputs -------------------------------------------------------------
\* Ensemble sizes (k >= 2) and observation dimensions of the generated
\* operands; entries of the generated perturbations are integers of magnitude
\* at most MaxEntry.
EnsSizes == {2, 3}
ObsDims == {0, 1}
MaxEntry == 1

RECURSIVE IntRows(_, _)
IntRows(n, vals) ==
    IF n = 0 THEN {<<>>}
    ELSE {Append(v, e) : v \in IntRows(n - 1, vals), e \in vals}

IntMats(k, m, vals) ==
    {IntMat(rows, m) : rows \in IntRows(k, IntRows(m, vals))}

\* Perturbations with two observation columns: full rank for k = 2, and a
\* rank-2 ensemble for k = 3.
ExtraPerts ==
    { IntMat(<<<<1, 0>>, <<0, 1>>>>, 2),
      IntMat(<<<<1, 1>>, <<1, -1>>>>, 2),
      IntMat(<<<<1, 0>>, <<-1, 0>>, <<0, 1>>>>, 2) }

PertsSet ==
    {P \in ExtraPerts \cup
           UNION {IntMats(k, m, (-MaxEntry)..MaxEntry) : k \in EnsSizes, m \in ObsDims} :
        IsDecomposable(KernelPerts(P))}

\* Innovations: a single innovation vector (one row) with as many columns as
\* the perturbations, or with one column more (a shape mismatch).
ObsValues == {NInt(0), NRat(1, 2)}
ObsSet(m) ==
    {[nr |-> 1, nc |-> m, v |-> <<row>>] : row \in IntRows(m, ObsValues)}
        \cup {[nr |-> 1, nc |-> m + 1, v |-> <<[j \in 1..(m + 1) |-> One]>>]}

InfFactors == {NRat(1, 2), NInt(1), NInt(2)}

None == <<>>

\* ---- state --------------------------------------------------------------
VARIABLES
    inf_factor,     \* ETKFWeightsModule._inf_factor
    normed_perts,   \* the operands of the caller
    normed_obs,
    ret,            \* <<the result of the last forward call>>, or None
    used_inf,       \* <<the _inf_factor that call read>>, or None
    tensor,         \* the operand of evd
    reg,            \* the reg_value passed to evd
    evd_ret,        \* <<the tuple returned by evd(tensor, reg)>>, or None
    rev_ret,        \* <<the outcome of a rev_evd call on evd_ret>>, or None
    kind,           \* "transform": IEnKSTransformModule, "bundle": IEnKSBundleModule
    tau,            \* IEnKSTransformModule.tau
    epsilon,        \* IEnKSBundleModule.epsilon
    weights,        \* the weights operand of the caller
    used_tau,       \* <<the tau the last forward call read>>, or None
    filter_cls,     \* the class of the kernelised filter: "KETKFBase" or "LKETKF"
    objects,        \* the engines constructed so far, in the order of construction
    engine,         \* filter._analyser / filter._core_module: an index of objects
    assigned,       \* the values assigned last and the number of assignments
    mixin,          \* "CorrMixin" or "UnCorrMixin": the class of the static methods
    observations,   \* the observation subsets: covariance and number of time steps
    state,          \* the matrix to normalise, one column per observation
    obs_cov,        \* <<the result of _get_obs_cov(observations)>>, or None
    prepared,       \* <<the covariance returned by _prepare_obs(observations)>>, or None
    cinv,           \* <<the result of _get_chol_inverse(obs_cov)>>, or None
    normed_state,   \* <<the result of _mul_cinv(state, cinv)>>, or None
    state_time,     \* state.time: the time coordinate of the state
    analysis_time,  \* <<the analysis_time argument>>, or <<>> for None
    time_ret,       \* <<the outcome of _get_analysis_time>>, or None
    ds,             \* Observation.ds: the structure of the xarray Dataset
    valid_ret,      \* <<the outcome of reading ds.obs.valid>>, or None
    algo,           \* the assimilation object: class, smoother, _correlated, transforms
    call_args,      \* the arguments of the caller: state, observations, analysis_time
    outcome,        \* <<the outcome of the last call on algo>>, or None
    internals,      \* <<the values of a call of a private IEnKS method>>, or None
    analyser,       \* the ETKFAnalyser: _inf_factor and gen_weights (a module or None)
    setter_pc,      \* <<new_factor>> between the two statements of the setter, or None
    perts_ret       \* <<what a get_analysis_perts call read and used>>, or None

etkf_vars == <<inf_factor, normed_perts, normed_obs, ret, used_inf>>
evd_vars == <<tensor, reg, evd_ret, rev_ret>>
ienks_vars == <<kind, tau, epsilon, weights, used_tau>>
ketkf_vars == <<filter_cls, objects, engine, assigned>>
norm_vars == <<mixin, observations, state, obs_cov, prepared, cinv, normed_state>>
time_vars == <<state_time, analysis_time, time_ret>>
obs_vars == <<ds, valid_ret>>
assim_vars == <<algo, call_args, outcome>>
step_vars == <<internals>>
analyser_vars == <<analyser, setter_pc, perts_ret>>
ext_vars == <<ketkf_vars, norm_vars, time_vars, obs_vars, assim_vars, step_vars,
              analyser_vars>>
vars == <<etkf_vars, evd_vars, ienks_vars, ext_vars>>

NoIEnKS ==
    kind = None /\ tau = None /\ epsilon = None /\ weights = None /\ used_tau = None

NoEtkf ==
    /\ inf_factor = None /\ normed_perts = None /\ normed_obs = None
    /\ ret = None /\ used_inf = None

NoEvd ==
    tensor = None /\ reg = None /\ evd_ret = None /\ rev_ret = None

NoKetkf ==
    filter_cls = None /\ objects = None /\ engine = None /\ assigned = None

NoNorm ==
    /\ mixin = None /\ observations = None /\ state = None /\ obs_cov = None
    /\ prepared = None /\ cinv = None /\ normed_state = None

NoTime ==
    state_time = None /\ analysis_time = None /\ time_ret = None

NoObs ==
    ds = None /\ valid_ret = None

NoAssim ==
    algo = None /\ call_args = None /\ outcome = None

NoStep == internals = None

NoAnalyser ==
    analyser = None /\ setter_pc = None /\ perts_ret = None

NoExt ==
    NoKetkf /\ NoNorm /\ NoTime /\ NoObs /\ NoAssim /\ NoStep /\ NoAnalyser

\* ETKFWeightsModule.__init__(inf_factor) and the operands of the caller
Init ==
    /\ inf_factor \in InfFactors
    /\ normed_perts \in PertsSet
    /\ normed_obs \in ObsSet(normed_perts.nc)
    /\ ret = None
    /\ used_inf = None
    /\ tensor = None /\ reg = None /\ evd_ret = None /\ rev_ret = None
    /\ NoIEnKS
    /\ NoExt

\* ETKFWeightsModule.inf_factor = new_factor
SetInfFactor ==
    \E new_factor \in InfFactors :
        /\ new_factor # inf_factor
        /\ inf_factor' = new_factor
        /\ UNCHANGED <<normed_perts, normed_obs, ret, used_inf, evd_vars, ienks_vars, ext_vars>>

\* ret = module(normed_perts, normed_obs)
Forward ==
    /\ ret = None
    /\ \E eig \in Symeig(KernelPerts(normed_perts)) :
           ret' = <<forward(inf_factor, normed_perts, normed_obs, eig)>>
    /\ used_inf' = <<inf_factor>>
    /\ UNCHANGED <<inf_factor, normed_perts, normed_obs, evd_vars, ienks_vars, ext_vars>>

\* the caller drops the result
Release ==
    /\ ret # None
    /\ ret' = None
    /\ used_inf' = None
    /\ UNCHANGED <<inf_factor, normed_perts, normed_obs, evd_vars, ienks_vars, ext_vars>>

Next == SetInfFactor \/ Forward \/ Release

Spec == Init /\ [][Next]_vars

\* ---- properties of the ETKF weight module -------------------------------
Returned == ret # None /\ ret[1].raised = ""
Out == ret[1]
EnsSize == normed_perts.nr
IsZeroMat(A) == \A i \in 1..A.nr : \A j \in 1..A.nc : A.v[i][j] = Zero

\* C1: the returned cov_analysed is the inverse of
\* ((k-1)/inf_factor)*I + normed_perts*normed_perts^T: their product is the
\* identity.
C1_CovAnalysedIsInverse ==
    Returned =>
        MatMul(Out.cov_analysed,
               MatAdd(MatScale(NDiv(NInt(EnsSize - 1), used_inf[1]), Identity(EnsSize)),
                      MatMul(normed_perts, Transpose(normed_perts))))
            = Identity(EnsSize)

C1_Witness ==
    /\ Returned
    /\ ~IsZeroMat(normed_perts)
    /\ used_inf[1] = NInt(2)
    /\ EnsSize = 3

\* C2: W[i][j] = w_mean[i] + w_perts[i][j] for all i, j (the mean weight of
\* member i is added to every entry of row i).
C2_WeightsAddMeanToRows ==
    Returned =>
        \A i \in 1..EnsSize : \A j \in 1..EnsSize :
            Out.weights.v[i][j] = NAdd(Out.w_mean[i], Out.w_perts.v[i][j])

\* C3 (as stated): in the scenario k = 3, normed_perts = [[1],[0],[-1]],
\* normed_obs = [[0.5]], inf_factor = 1, w_mean = [0.25, 0, -0.25].
Scenario ==
    /\ Returned
    /\ normed_perts = IntMat(<<<<1>>, <<0>>, <<-1>>>>, 1)
    /\ normed_obs = [nr |-> 1, nc |-> 1, v |-> <<<<NRat(1, 2)>>>>]
    /\ used_inf[1] = One

C3_ScenarioMeanQuarter ==
    Scenario => Out.w_mean = <<NRat(1, 4), Zero, NRat(-1, 4)>>

\* C3 (amended): in that scenario w_mean = [0.125, 0, -0.125].
C3_ScenarioMeanEighth ==
    Scenario => Out.w_mean = <<NRat(1, 8), Zero, NRat(-1, 8)>>

C3_Witness == Scenario

\* C4: in the scenario every column sum of the returned weights is 1.
ColSum(A, j) == LET e(i) == A.v[i][j] IN NSum(Tab(e, A.nr))

C4_ScenarioColumnSums ==
    Scenario => \A j \in 1..3 : ColSum(Out.weights, j) = One

\* C5: for inf_factor = 1 and an all-zero normed_obs, w_mean = 0 in every
\* component and the weights equal w_perts.
C5_IdentityWeightProperty ==
    (Returned /\ used_inf[1] = One /\ IsZeroMat(normed_obs)) =>
        /\ \A i \in 1..EnsSize : Out.w_mean[i] = Zero
        /\ Out.weights = Out.w_perts

C5_Witness ==
    /\ Returned
    /\ used_inf[1] = One
    /\ IsZeroMat(normed_obs)
    /\ normed_obs.nc > 0
    /\ ~IsZeroMat(normed_perts)

\* C6: for fixed normed_perts and inflation factors a < b, the Frobenius norm
\* of w_perts with inf_factor = b is strictly greater than with inf_factor = a
\* (the norms are non-negative, so their squares are compared).
Frob2(A) ==
    LET row(i) == LET e(j) == NMul(A.v[i][j], A.v[i][j]) IN NSum(Tab(e, A.nc))
    IN  NSum(Tab(row, A.nr))

C6_InflationMonotone ==
    Returned =>
        \A b \in InfFactors :
            NLess(used_inf[1], b) =>
                \A eig \in Symeig(KernelPerts(normed_perts)) :
                    LET wb == forward(b, normed_perts, normed_obs, eig).w_perts
                    IN  /\ IsRational(Frob2(wb))
                        /\ IsRational(Frob2(Out.w_perts))
                        /\ NLess(Frob2(Out.w_perts), Frob2(wb))

C6_Witness ==
    /\ Returned
    /\ used_inf[1] = NRat(1, 2)
    /\ ~IsZeroMat(normed_perts)
    /\ normed_perts.nc = 2

\* C9 (as stated): for k = 2, at least one observation column and a
\* normed_obs of the same width, forward does not raise and w_perts has rank
\* at most 1 (its determinant is zero).
Det2(A) == NSub(NMul(A.v[1][1], A.v[2][2]), NMul(A.v[1][2], A.v[2][1]))

SizeTwoCall ==
    /\ ret # None
    /\ EnsSize = 2
    /\ normed_perts.nc >= 1
    /\ normed_obs.nc = normed_perts.nc

C9_SizeTwoRankAtMostOne ==
    SizeTwoCall => (Out.raised = "" /\ Det2(Out.w_perts) = Zero)

\* C9 (amended): in that case forward does not raise and w_perts is symmetric
\* with a non-zero determinant, i.e. it has full rank 2.
C9_SizeTwoFullRank ==
    SizeTwoCall =>
        /\ Out.raised = ""
        /\ Out.w_perts.v[1][2] = Out.w_perts.v[2][1]
        /\ IsFinite(Det2(Out.w_perts))
        /\ Det2(Out.w_perts) # Zero

C9_Witness == SizeTwoCall /\ ~IsZeroMat(normed_perts) /\ normed_perts.nc = 2

\* C11: when normed_perts and normed_obs have zero columns, forward raises
\* no error and returns the identity matrix as weights, for every inf_factor.
ZeroObsCall ==
    /\ ret # None
    /\ used_inf # None
    /\ normed_perts.nc = 0
    /\ normed_obs.nc = 0

C11_ZeroObsIdentityWeights ==
    ZeroObsCall => (Out.raised = "" /\ Out.weights = Identity(EnsSize))

\* C13: a normed_obs whose observation dimension differs from the one of
\* normed_perts is reported by an error before any decomposition is executed:
\* no call to evd precedes the error.
C13_MismatchBeforeDecomposition ==
    (ret # None /\ used_inf # None /\ normed_obs.nc # normed_perts.nc) =>
        (Out.raised # "" /\ Out.calls = <<>>)

\* ---- the kernelised ETKF engine

LinearKernel_forward_doubled(x, y) == MatScale(NInt(2), MatMul(x, Transpose(y)))

\* LinearKernel.forward(x, y): the dot product of the rows of x and y
LinearKernel_forward(x, y) == MatMul(x, Transpose(y))

\* kernel(x, y): a RuntimeError of the matrix product is kept as the value
apply_kernel(kernel, x, y) ==
    CASE kernel = "LinearKernel" ->
        IF x.nc # y.nc THEN [raised |-> "RuntimeError"]
        ELSE [raised |-> "", value |-> LinearKernel_forward(x, y)]

\* forward of the kernelised engine: the steps of ETKFWeightsModule.forward
\* with the two dot products replaced by the kernel; eig is the value
\* torch.symeig returned for kernel(perts, perts).
ketkf_forward(kernel, c_inf_factor, perts, obs, eig) ==
    With(perts.nr, LAMBDA ens_size :
    With(evd(eig, RegValue(ens_size, c_inf_factor)), LAMBDA dec :
    With(rev_evd(dec[3], dec[2], dec[4]), LAMBDA cov_analysed :
    With(apply_kernel(kernel, perts, obs), LAMBDA kernel_obs :
        IF kernel_obs.raised # ""
        THEN [raised |-> kernel_obs.raised]
        ELSE With(Squeeze(MatMul(cov_analysed, kernel_obs.value)), LAMBDA w_mean :
             With(rev_evd(SquareRootEinv(ens_size, dec[3]), dec[2], dec[4]),
                  LAMBDA w_perts :
                      [raised |-> "", weights |-> BroadcastAdd(w_mean, w_perts)]))))))

\* C19: the kernelised engine with the linear kernel returns the weights of
\* ETKFWeightsModule.forward for the same normed_perts, normed_obs and
\* inf_factor, and raises when it raises.
C19_LinearKernelIsPlainEtkf ==
    (ret # None /\ used_inf # None) =>
        \A eig \in Symeig(apply_kernel("LinearKernel", normed_perts, normed_perts).value) :
            With(ketkf_forward("LinearKernel", used_inf[1], normed_perts,
                               normed_obs, eig),
                 LAMBDA kout :
                     /\ kout.raised = Out.raised
                     /\ kout.raised = "" => kout.weights = Out.weights)

C19_Witness ==
    /\ Returned
    /\ EnsSize = 3
    /\ normed_perts.nc = 2
    /\ ~IsZeroMat(normed_obs)
    /\ Out.weights # Identity(3)

\* ---- evd / rev_evd called directly --------------------------------------
\* Operands of evd: the symmetric matrices G + c*I for a Gram matrix G of
\* perturbations (ensemble size 2, or one of the 3-member ensembles below) and
\* a shift c: positive definite for c = 1, positive semi-definite for c = 0
\* and with negative eigenvalues for c = -1.
Shifts == {-1, 0, 1}
EvdPerts ==
    {P \in PertsSet : P.nr = 2} \cup
    { IntMat(<<<<1, 0>>, <<-1, 0>>, <<0, 1>>>>, 2),
      IntMat(<<<<1>>, <<0>>, <<-1>>>>, 1) }
SymTensors ==
    {MatAdd(KernelPerts(P), MatScale(NInt(c), Identity(P.nr))) :
        P \in EvdPerts, c \in Shifts}
RegValues == {NInt(0), NRat(1, 2), NInt(1)}

InitEvd ==
    /\ tensor \in SymTensors
    /\ reg \in RegValues
    /\ evd_ret = None
    /\ rev_ret = None
    /\ inf_factor = None /\ normed_perts = None /\ normed_obs = None
    /\ ret = None /\ used_inf = None
    /\ NoIEnKS
    /\ NoExt

\* evd_ret = evd(tensor, reg)
CallEvd ==
    /\ evd_ret = None
    /\ \E eig \in Symeig(tensor) : evd_ret' = <<evd(eig, reg)>>
    /\ UNCHANGED <<tensor, reg, rev_ret, etkf_vars, ienks_vars, ext_vars>>

\* rev_evd(*evd_ret): all four values of evd passed positionally
CallRevEvdStar ==
    /\ evd_ret # None
    /\ rev_ret' = <<[call |-> "star"] @@ Call_rev_evd(evd_ret[1])>>
    /\ UNCHANGED <<tensor, reg, evd_ret, etkf_vars, ienks_vars, ext_vars>>

\* evals, evects, evals_inv, evects_inv = evd_ret
\* rev_evd(evals, evects, evects_inv)
CallRevEvd ==
    /\ evd_ret # None
    /\ rev_ret' = <<[call |-> "evals"] @@
                    Call_rev_evd(<<evd_ret[1][1], evd_ret[1][2], evd_ret[1][4]>>)>>
    /\ UNCHANGED <<tensor, reg, evd_ret, etkf_vars, ienks_vars, ext_vars>>

NextEvd == CallEvd \/ CallRevEvdStar \/ CallRevEvd

SpecEvd == InitEvd /\ [][NextEvd]_vars

\* All eigenvalues of M are strictly positive.
PosDef(M) ==
    \A e \in Symeig(M) : \A i \in 1..M.nr : NLess(Zero, e.evals[i])

RoundTrip(call) ==
    /\ rev_ret # None
    /\ rev_ret[1].call = call
    /\ reg = Zero
    /\ PosDef(tensor)

\* C7 (as stated): for a symmetric positive-definite M the call
\* rev_evd(*evd(M, 0)) succeeds and reconstructs M.
C7_StarRoundTrip ==
    RoundTrip("star") => (rev_ret[1].raised = "" /\ rev_ret[1].value = tensor)

\* C7 (amended): evd returns four values and rev_evd takes three, so
\* rev_evd(*evd(M, 0)) raises TypeError; rev_evd(evals, evects, evects_inv)
\* with the first, second and fourth value of evd(M, 0) succeeds and
\* reconstructs M.
C7_RoundTrip ==
    /\ RoundTrip("star") => rev_ret[1].raised = "TypeError"
    /\ RoundTrip("evals") => (rev_ret[1].raised = "" /\ rev_ret[1].value = tensor)

C7_Witness == RoundTrip("evals") /\ tensor.nr = 3 /\ tensor.v[1][3] # Zero

\* C12: evd never returns an infinite or NaN inverse eigenvalue: an
\* eigenvalue that is not strictly positive after regularization is
\* signalled as an error instead of being inverted.
C12_NoSilentInfiniteInverse ==
    evd_ret # None =>
        \A i \in 1..Len(evd_ret[1][3]) : IsFinite(evd_ret[1][3][i])

\* ---- IEnKS: modules, operands and calls ---------------------------------
Kinds == {"transform", "bundle"}
Taus == {Zero, NRat(1, 2), One}
Epsilons == {NRat(1, 2)}

\* Weights: the identity (the first iteration), a scaled identity, a
\* triangular matrix and the zero matrix.  A call that updates the weights
\* starts from the identity.
WeightsSet(k) ==
    LET upper(i, j) == IF i <= j THEN One ELSE Zero
        none(i, j) == Zero
    IN  {Identity(k), MatScale(NInt(2), Identity(k)), Mat(k, k, upper), Mat(k, k, none)}

\* Perturbations: without observations, all-zero, of rank one and of rank
\* two, for k = 2 and k = 3.
IEnKSPerts ==
    ExtraPerts \cup
    { IntMat(<<<<>>, <<>>>>, 0), IntMat(<<<<>>, <<>>, <<>>>>, 0),
      IntMat(<<<<0>>, <<0>>>>, 1),
      IntMat(<<<<1>>, <<-1>>>>, 1), IntMat(<<<<0>>, <<1>>>>, 1),
      IntMat(<<<<1>>, <<0>>, <<-1>>>>, 1) }

\* Innovations: all-zero, all 1/2, and one with a column too many.
IEnKSObs(m) ==
    LET zero(i, j) == Zero
        half(i, j) == NRat(1, 2)
        ones(i, j) == One
    IN  {Mat(1, m, zero), Mat(1, m, half), Mat(1, m + 1, ones)}

\* The call updates the weights: its decompositions are executed.
Decomposes(c_perts, c_obs) == c_perts.nc > 0 /\ c_perts.nc = c_obs.nc

\* IEnKSTransformModule.__init__(tau), IEnKSBundleModule.__init__(epsilon, tau)
\* and the operands of the caller
InitIEnKS ==
    /\ kind \in Kinds
    /\ epsilon \in IF kind = "bundle" THEN Epsilons ELSE {None}
    /\ normed_perts \in IEnKSPerts
    /\ normed_obs \in IEnKSObs(normed_perts.nc)
    /\ weights \in IF Decomposes(normed_perts, normed_obs)
                    THEN {Identity(normed_perts.nr)}
                    ELSE WeightsSet(normed_perts.nr)
    /\ tau \in Taus
    /\ ret = None
    /\ used_tau = None
    /\ inf_factor = None /\ used_inf = None
    /\ tensor = None /\ reg = None /\ evd_ret = None /\ rev_ret = None
    /\ NoExt

\* module.tau = new_tau
SetTau ==
    \E new_tau \in Taus :
        /\ new_tau # tau
        /\ tau' = new_tau
        /\ UNCHANGED <<kind, epsilon, weights, used_tau, etkf_vars, evd_vars, ext_vars>>

\* ret = module(weights, normed_perts, normed_obs)
IEnKSForward ==
    /\ ret = None
    /\ \E out \in ienks_forward(kind, tau, epsilon, weights, normed_perts, normed_obs) :
           ret' = <<out>>
    /\ used_tau' = <<tau>>
    /\ UNCHANGED <<kind, tau, epsilon, weights, inf_factor, normed_perts,
                   normed_obs, used_inf, evd_vars, ext_vars>>

\* the caller drops the result
IEnKSRelease ==
    /\ ret # None
    /\ ret' = None
    /\ used_tau' = None
    /\ UNCHANGED <<kind, tau, epsilon, weights, inf_factor, normed_perts,
                   normed_obs, used_inf, evd_vars, ext_vars>>

NextIEnKS == SetTau \/ IEnKSForward \/ IEnKSRelease

SpecIEnKS == InitIEnKS /\ [][NextIEnKS]_vars

IEnKSReturned == ret # None /\ ret[1].raised = ""

\* C8 (as stated): one IEnKSTransformModule.forward step with tau = 1,
\* weights = identity and all-zero normed_obs returns the identity weights,
\* for every normed_perts with at least one observation column.
FixedPointCall ==
    /\ IEnKSReturned
    /\ kind = "transform"
    /\ used_tau[1] = One
    /\ weights = Identity(weights.nr)
    /\ IsZeroMat(normed_obs)
    /\ normed_perts.nc >= 1

C8_IdentityFixedPoint ==
    FixedPointCall => ret[1].weights = weights

\* C8 (amended): that step returns the symmetric square root W of
\* (k-1) (Pn Pn^T + (k-1) I)^-1, that is W = W^T and
\* W W (Pn Pn^T + (k-1) I) = (k-1) I; it is the identity exactly when
\* normed_perts is all-zero.
C8_StepIsPosteriorRoot ==
    FixedPointCall =>
        LET W == ret[1].weights
            k == weights.nr
            prec == diagonal_add(matrix_product(normed_perts, normed_perts), NInt(k - 1))
        IN  /\ W = Transpose(W)
            /\ MatMul(MatMul(W, W), prec) = MatScale(NInt(k - 1), Identity(k))
            /\ (W = Identity(k)) <=> IsZeroMat(normed_perts)

C8_Witness ==
    /\ FixedPointCall
    /\ weights.nr = 3
    /\ normed_perts.nc = 2
    /\ ret[1].weights # weights

\* C10: when normed_perts has zero observation columns, forward of the
\* transform and of the bundle module performs no decomposition and returns
\* the input weights with unchanged values, for every weight matrix and tau.
C10_NoObsIsNoOp ==
    (ret # None /\ used_tau # None /\ normed_perts.nc = 0) =>
        /\ normed_obs.nc = 0 => ret[1].raised = ""
        /\ ret[1].raised = "" =>
               ret[1].weights = weights /\ ret[1].calls = <<>>

C10_Witness ==
    /\ IEnKSReturned
    /\ normed_perts.nc = 0
    /\ kind = "bundle"
    /\ used_tau[1] = NRat(1, 2)
    /\ weights # Identity(weights.nr)
    /\ ret[1].weights = weights


\* ---- both weight engines, called by one caller

InitPure == Init \/ InitIEnKS

\* an ETKFWeightsModule takes no weights operand, an IEnKS module does
NextPure == (weights = None /\ Next) \/ (weights # None /\ NextIEnKS)

SpecPure == InitPure /\ [][NextPure]_vars

\* C18: forward of ETKFWeightsModule and of the IEnKS modules is a pure step
\* function: the result is determined by the operands and the configuration
\* (whatever decomposition torch returns), and a call changes neither the
\* operands nor inf_factor, tau or epsilon.
C18_ForwardIsPure ==
    /\ []((ret # None /\ used_inf # None) =>
            ret[1] = forward(used_inf[1], normed_perts, normed_obs,
                             CHOOSE eig \in Symeig(KernelPerts(normed_perts)) : TRUE))
    /\ []((ret # None /\ used_tau # None) =>
            ienks_forward(kind, used_tau[1], epsilon, weights, normed_perts,
                          normed_obs) = {ret[1]})
    /\ [][(ret = None /\ ret' # None) =>
            UNCHANGED <<inf_factor, kind, tau, epsilon, weights, normed_perts,
                        normed_obs>>]_vars

C18_Witness ==
    /\ ret # None
    /\ used_inf # None
    /\ ret[1].raised = ""
    /\ normed_perts.nc > 0
    /\ Cardinality(Symeig(KernelPerts(normed_perts))) > 1

\* ---- kernelised filters: the inf_factor and kernel properties

MaxAssign == 3

Kernels == {"LinearKernel", "TanhKernel", "GaussKernel"}

FilterClasses == {"KETKFBase", "LKETKF"}

\* KETKFAnalyser(kernel=kernel, inf_factor=inf_factor)
KETKFAnalyser(new_kernel, new_factor) ==
    [cls |-> "KETKFAnalyser", kernel |-> new_kernel, inf_factor |-> new_factor]

\* KETKFModule(kernel=kernel, inf_factor=inf_factor)
KETKFModule(new_kernel, new_factor) ==
    [cls |-> "KETKFModule", kernel |-> new_kernel, inf_factor |-> new_factor]

\* self._analyser = <a newly constructed object>
Bind(f, obj) ==
    [objects |-> Append(f.objects, obj), engine |-> Len(f.objects) + 1]

\* the engine the filter refers to
Engine(f) == f.objects[f.engine]

KETKFBase_set_inf_factor_inplace(f, new_factor) ==
    [objects |-> [f.objects EXCEPT ![f.engine].inf_factor = new_factor],
     engine |-> f.engine]

\* KETKFBase.inf_factor = new_factor
KETKFBase_set_inf_factor(f, new_factor) ==
    Bind(f, KETKFAnalyser(Engine(f).kernel, new_factor))

\* KETKFBase.kernel = new_kernel
KETKFBase_set_kernel(f, new_kernel) ==
    Bind(f, KETKFAnalyser(new_kernel, Engine(f).inf_factor))

\* LKETKF.inf_factor = new_factor
LKETKF_set_inf_factor(f, new_factor) ==
    Bind(f, KETKFModule(Engine(f).kernel, new_factor))

\* LKETKF.kernel = new_kernel
LKETKF_set_kernel(f, new_kernel) ==
    Bind(f, KETKFModule(new_kernel, Engine(f).inf_factor))

\* the __init__ of the parent class (ETKFBase, LETKF) receives inf_factor: it
\* either stores nothing in the filter or assigns self.inf_factor
ParentInit(cls, f, new_factor) ==
    {f, IF cls = "KETKFBase" THEN KETKFBase_set_inf_factor(f, new_factor)
                             ELSE LKETKF_set_inf_factor(f, new_factor)}

\* KETKFBase.__init__(kernel, inf_factor)
KETKFBase_init(new_kernel, new_factor) ==
    ParentInit("KETKFBase",
               Bind([objects |-> <<>>, engine |-> 0],
                    KETKFAnalyser(new_kernel, new_factor)),
               new_factor)

\* LKETKF.__init__(kernel=kernel, inf_factor=inf_factor)
LKETKF_init(new_kernel, new_factor) ==
    {LKETKF_set_kernel(f, new_kernel) :
        f \in ParentInit("LKETKF",
                         Bind([objects |-> <<>>, engine |-> 0],
                              KETKFModule(new_kernel, new_factor)),
                         new_factor)}

TheFilter == [objects |-> objects, engine |-> engine]

InitKetkf ==
    /\ filter_cls \in FilterClasses
    /\ \E new_kernel \in Kernels, new_factor \in InfFactors :
        /\ \E f \in IF filter_cls = "KETKFBase"
                    THEN KETKFBase_init(new_kernel, new_factor)
                    ELSE LKETKF_init(new_kernel, new_factor) :
               objects = f.objects /\ engine = f.engine
        /\ assigned = [inf_factor |-> new_factor, kernel |-> new_kernel, n |-> 0]
    /\ NoEtkf /\ NoEvd /\ NoIEnKS /\ NoNorm /\ NoTime /\ NoObs /\ NoAssim /\ NoStep /\ NoAnalyser

\* filter.inf_factor = new_factor
AssignInfFactor ==
    /\ assigned.n < MaxAssign
    /\ \E new_factor \in InfFactors :
        /\ \E f \in {IF filter_cls = "KETKFBase"
                     THEN KETKFBase_set_inf_factor(TheFilter, new_factor)
                     ELSE LKETKF_set_inf_factor(TheFilter, new_factor)} :
               objects' = f.objects /\ engine' = f.engine
        /\ assigned' = [assigned EXCEPT !.inf_factor = new_factor, !.n = @ + 1]
    /\ UNCHANGED <<filter_cls, etkf_vars, evd_vars, ienks_vars, norm_vars, time_vars, obs_vars, assim_vars, step_vars, analyser_vars>>

\* filter.kernel = new_kernel
AssignKernel ==
    /\ assigned.n < MaxAssign
    /\ \E new_kernel \in Kernels :
        /\ \E f \in {IF filter_cls = "KETKFBase"
                     THEN KETKFBase_set_kernel(TheFilter, new_kernel)
                     ELSE LKETKF_set_kernel(TheFilter, new_kernel)} :
               objects' = f.objects /\ engine' = f.engine
        /\ assigned' = [assigned EXCEPT !.kernel = new_kernel, !.n = @ + 1]
    /\ UNCHANGED <<filter_cls, etkf_vars, evd_vars, ienks_vars, norm_vars, time_vars, obs_vars, assim_vars, step_vars, analyser_vars>>

NextKetkf == AssignInfFactor \/ AssignKernel

SpecKetkf == InitKetkf /\ [][NextKetkf]_vars

\* the objects that existed before a step are the same objects after it
NoObjectMutated ==
    /\ Len(objects') >= Len(objects)
    /\ SubSeq(objects', 1, Len(objects)) = objects

\* C14: on a kernelised filter every assignment of inf_factor or kernel binds
\* the engine to a newly constructed object and mutates no existing object;
\* the engine always carries the inf_factor and the kernel assigned last (the
\* values of the constructor if never assigned), so an assignment of one of
\* them leaves the other as it was.
C14_AssignmentRebuildsEngine ==
    /\ [](assigned # None =>
            /\ objects[engine].inf_factor = assigned.inf_factor
            /\ objects[engine].kernel = assigned.kernel)
    /\ [][assigned # None =>
            /\ NoObjectMutated
            /\ assigned'.n > assigned.n => engine' > Len(objects)
            /\ assigned'.kernel = assigned.kernel =>
                   objects'[engine'].kernel = objects[engine].kernel
            /\ assigned'.inf_factor = assigned.inf_factor =>
                   objects'[engine'].inf_factor = objects[engine].inf_factor]_vars

C14_Witness ==
    /\ assigned # None
    /\ assigned.n = MaxAssign
    /\ objects[engine].kernel # objects[1].kernel
    /\ objects[engine].inf_factor # objects[1].inf_factor


\* ---- CorrMixin / UnCorrMixin: observation covariance and normalisation

\* scipy.linalg.block_diag(A, B)
BlockDiag2(A, B) ==
    Mat(A.nr + B.nr, A.nc + B.nc,
        LAMBDA i, j : IF i <= A.nr /\ j <= A.nc THEN A.v[i][j]
                      ELSE IF i > A.nr /\ j > A.nc THEN B.v[i - A.nr][j - A.nc]
                      ELSE Zero)

\* scipy.linalg.block_diag(*arrs)
RECURSIVE block_diag(_)
block_diag(arrs) ==
    IF arrs = <<>> THEN [nr |-> 0, nc |-> 0, v |-> <<>>]
    ELSE BlockDiag2(block_diag(SubSeq(arrs, 1, Len(arrs) - 1)), arrs[Len(arrs)])

\* np.concatenate(arrs) of 1-d arrays
RECURSIVE concatenate(_)
concatenate(arrs) ==
    IF arrs = <<>> THEN <<>> ELSE Head(arrs) \o concatenate(Tail(arrs))

Repeat_once(x, n) == <<x>>

\* [x] * n
Repeat(x, n) == Tab(LAMBDA i : x, n)

\* CorrMixin._get_obs_cov(observations)
CorrMixin_get_obs_cov(obs_list) ==
    block_diag(Tab(LAMBDA i : block_diag(Repeat(obs_list[i].covariance,
                                                obs_list[i].len_time)),
                   Len(obs_list)))

\* UnCorrMixin._get_obs_cov(observations)
UnCorrMixin_get_obs_cov(obs_list) ==
    concatenate(Tab(LAMBDA i : concatenate(Repeat(obs_list[i].covariance,
                                                  obs_list[i].len_time)),
                    Len(obs_list)))

\* the covariance BaseAssimilation._prepare_obs(observations) returns
prepare_obs(correlated, obs_list) ==
    With(Tab(LAMBDA i : With(Repeat(obs_list[i].covariance, obs_list[i].len_time),
                             LAMBDA stacked_cov :
                                 IF correlated THEN block_diag(stacked_cov)
                                 ELSE concatenate(stacked_cov)),
             Len(obs_list)),
         LAMBDA cov_stacked_list :
             IF correlated THEN block_diag(cov_stacked_list)
             ELSE concatenate(cov_stacked_list))

\* torch.cholesky: the entries 1..j of row i of the lower factor, from the
\* rows before it
RECURSIVE CholRow(_, _, _, _)
CholRow(R, rows, i, j) ==
    IF j = 0 THEN <<>>
    ELSE With(CholRow(R, rows, i, j - 1), LAMBDA row :
         With(NSub(R.v[i][j],
                   NSum(Tab(LAMBDA k : NMul(row[k], IF j = i THEN row[k]
                                                    ELSE rows[j][k]),
                            j - 1))),
              LAMBDA rest :
                  Append(row, IF j = i THEN NSqrt(rest)
                              ELSE NDiv(rest, rows[j][j]))))

RECURSIVE CholRows(_, _)
CholRows(R, i) ==
    IF i = 0 THEN <<>>
    ELSE With(CholRows(R, i - 1), LAMBDA rows :
              Append(rows, CholRow(R, rows, i, i)))

\* torch.cholesky(cov): the lower triangular L with L * L^T = cov
cholesky(R) ==
    With(CholRows(R, R.nr), LAMBDA rows :
        Mat(R.nr, R.nr, LAMBDA i, j : IF j <= i THEN rows[i][j] ELSE Zero))

\* the rows 1..i of the inverse of a lower triangular matrix
RECURSIVE InvRows(_, _)
InvRows(L, i) ==
    IF i = 0 THEN <<>>
    ELSE With(InvRows(L, i - 1), LAMBDA rows :
        Append(rows,
               Tab(LAMBDA j :
                       IF j = i THEN NInv(L.v[i][i])
                       ELSE IF j > i THEN Zero
                       ELSE NNeg(NDiv(NSum(Tab(LAMBDA k : NMul(L.v[i][k], rows[k][j]),
                                               i - 1)),
                                      L.v[i][i])),
                   L.nr)))

\* chol_decomp.inverse()
inverse(L) == [nr |-> L.nr, nc |-> L.nc, v |-> InvRows(L, L.nr)]

\* CorrMixin._get_chol_inverse(cov)
CorrMixin_get_chol_inverse(cov) == inverse(cholesky(cov))

\* CorrMixin._mul_cinv(state, cinv)
CorrMixin_mul_cinv(c_state, c_cinv) == MatMul(c_state, c_cinv)

UnCorrMixin_get_chol_inverse_nosqrt(cov) == Tab(LAMBDA j : NInv(cov[j]), Len(cov))

\* UnCorrMixin._get_chol_inverse(cov)
UnCorrMixin_get_chol_inverse(cov) ==
    Tab(LAMBDA j : NDiv(One, NSqrt(cov[j])), Len(cov))

\* UnCorrMixin._mul_cinv(state, cinv): cinv is broadcast over the rows
UnCorrMixin_mul_cinv(c_state, c_cinv) ==
    Mat(c_state.nr, c_state.nc, LAMBDA i, j : NMul(c_state.v[i][j], c_cinv[j]))


MaxTime == 2
MaxSubsets == 2

Mixins == {"CorrMixin", "UnCorrMixin"}

\* symmetric positive definite covariances of one observation subset
CorrCovs ==
    {IntMat(<<<<1>>>>, 1), IntMat(<<<<2>>>>, 1), IntMat(<<<<4>>>>, 1),
     IntMat(<<<<1, 1>>, <<1, 2>>>>, 2), IntMat(<<<<2, -1>>, <<-1, 2>>>>, 2),
     IntMat(<<<<1, 0>>, <<0, 4>>>>, 2)}

\* positive variances of one observation subset
UnCorrCovs ==
    {<<NInt(1)>>, <<NInt(2)>>, <<NInt(4)>>, <<NInt(1), NInt(4)>>,
     <<NInt(2), NInt(1)>>}

Subsets(mix) ==
    [covariance : IF mix = "CorrMixin" THEN CorrCovs ELSE UnCorrCovs,
     len_time : 1..MaxTime]

ObsLists(mix) ==
    UNION {[1..n -> Subsets(mix)] : n \in 1..MaxSubsets}

\* the number of grid points of a subset
GridSize(obs) ==
    IF DOMAIN obs.covariance = {"nr", "nc", "v"} THEN obs.covariance.nr
    ELSE Len(obs.covariance)

RECURSIVE TotalSize(_)
TotalSize(obs_list) ==
    IF obs_list = <<>> THEN 0
    ELSE Head(obs_list).len_time * GridSize(Head(obs_list)) + TotalSize(Tail(obs_list))

\* rows of a state with m columns
StateRows(m) ==
    {Tab(LAMBDA j : NInt(IF j = 1 THEN 1 ELSE 0), m),
     Tab(LAMBDA j : NInt(1), m),
     Tab(LAMBDA j : NInt(IF j % 2 = 1 THEN 1 ELSE -1), m),
     Tab(LAMBDA j : NInt(j), m)}

StateSet(m) ==
    {[nr |-> 1, nc |-> m, v |-> <<r>>] : r \in StateRows(m)}
    \cup {[nr |-> 2, nc |-> m,
           v |-> <<Tab(LAMBDA j : NInt(IF j = 1 THEN 1 ELSE 0), m),
                   Tab(LAMBDA j : NInt(IF j % 2 = 1 THEN 1 ELSE -1), m)>>]}

InitNorm ==
    /\ mixin \in Mixins
    /\ observations \in ObsLists(mixin)
    /\ state \in StateSet(TotalSize(observations))
    /\ obs_cov = None
    /\ prepared = None
    /\ cinv = None
    /\ normed_state = None
    /\ NoEtkf /\ NoEvd /\ NoIEnKS /\ NoKetkf /\ NoTime /\ NoObs /\ NoAssim /\ NoStep /\ NoAnalyser

\* obs_cov = self._get_obs_cov(observations)
GetObsCov ==
    /\ obs_cov = None
    /\ obs_cov' = <<IF mixin = "CorrMixin" THEN CorrMixin_get_obs_cov(observations)
                    ELSE UnCorrMixin_get_obs_cov(observations)>>
    /\ UNCHANGED <<mixin, observations, state, prepared, cinv, normed_state,
                   etkf_vars, evd_vars, ienks_vars, ketkf_vars, time_vars, obs_vars, assim_vars, step_vars, analyser_vars>>

\* _, prepared, _ = self._prepare_obs(observations)
PrepareObs ==
    /\ prepared = None
    /\ prepared' = <<prepare_obs(mixin = "CorrMixin", observations)>>
    /\ UNCHANGED <<mixin, observations, state, obs_cov, cinv, normed_state,
                   etkf_vars, evd_vars, ienks_vars, ketkf_vars, time_vars, obs_vars, assim_vars, step_vars, analyser_vars>>

\* cinv = self._get_chol_inverse(obs_cov)
GetCholInverse ==
    /\ obs_cov # None
    /\ cinv = None
    /\ cinv' = <<IF mixin = "CorrMixin" THEN CorrMixin_get_chol_inverse(obs_cov[1])
                 ELSE UnCorrMixin_get_chol_inverse(obs_cov[1])>>
    /\ UNCHANGED <<mixin, observations, state, obs_cov, prepared, normed_state,
                   etkf_vars, evd_vars, ienks_vars, ketkf_vars, time_vars, obs_vars, assim_vars, step_vars, analyser_vars>>

\* normed_state = self._mul_cinv(state, cinv)
MulCinv ==
    /\ cinv # None
    /\ normed_state = None
    /\ normed_state' = <<IF mixin = "CorrMixin" THEN CorrMixin_mul_cinv(state, cinv[1])
                         ELSE UnCorrMixin_mul_cinv(state, cinv[1])>>
    /\ UNCHANGED <<mixin, observations, state, obs_cov, prepared, cinv,
                   etkf_vars, evd_vars, ienks_vars, ketkf_vars, time_vars, obs_vars, assim_vars, step_vars, analyser_vars>>

NextNorm == GetObsCov \/ PrepareObs \/ GetCholInverse \/ MulCinv

SpecNorm == InitNorm /\ [][NextNorm]_vars

\* R^-1 from the Cholesky factor: (L L^T)^-1 = L^-T L^-1
CovInverse(R) ==
    With(inverse(cholesky(R)), LAMBDA li : MatMul(Transpose(li), li))

CorrNormed == normed_state # None /\ mixin = "CorrMixin"

\* C15: for a symmetric positive definite covariance R, also one with
\* off-diagonal entries, and a state P, the normalised state Pn of CorrMixin
\* satisfies Pn Pn^T = P R^-1 P^T.
C15_CorrNormalisationIsInverseRoot ==
    CorrNormed =>
        /\ MatMul(obs_cov[1], CovInverse(obs_cov[1])) = Identity(obs_cov[1].nr)
        /\ MatMul(normed_state[1], Transpose(normed_state[1]))
               = MatMul(MatMul(state, CovInverse(obs_cov[1])), Transpose(state))


\* the subset, the time step and the grid point of entry a of the stacked
\* observations, counted from subset i
RECURSIVE Locate(_, _, _)
Locate(obs_list, i, a) ==
    With(GridSize(obs_list[i]), LAMBDA n :
        IF a <= obs_list[i].len_time * n
        THEN [subset |-> i, time |-> ((a - 1) \div n) + 1, grid |-> ((a - 1) % n) + 1]
        ELSE Locate(obs_list, i + 1, a - obs_list[i].len_time * n))

\* the covariance of the entries a and b of the stacked observations
Coupling(obs_list, a, b) ==
    With(Locate(obs_list, 1, a), LAMBDA la :
    With(Locate(obs_list, 1, b), LAMBDA lb :
        IF la.subset = lb.subset /\ la.time = lb.time
        THEN obs_list[la.subset].covariance.v[la.grid][lb.grid]
        ELSE Zero))

\* C16: CorrMixin._get_obs_cov returns a square matrix of size sum(t_i * n_i)
\* that holds the covariance of subset i t_i times along the diagonal, in the
\* order of the subsets, and zero wherever two subsets or two time steps are
\* coupled; _prepare_obs returns the same covariance in correlated mode.
C16_BlockDiagonalCovariance ==
    /\ (obs_cov # None /\ mixin = "CorrMixin") =>
           /\ obs_cov[1].nr = TotalSize(observations)
           /\ obs_cov[1].nc = TotalSize(observations)
           /\ \A a, b \in 1..TotalSize(observations) :
                  obs_cov[1].v[a][b] = Coupling(observations, a, b)
    /\ (prepared # None /\ mixin = "CorrMixin") =>
           prepared[1] = CorrMixin_get_obs_cov(observations)

C16_Witness ==
    /\ obs_cov # None
    /\ prepared # None
    /\ mixin = "CorrMixin"
    /\ Len(observations) = 2
    /\ observations[1].len_time = 2
    /\ observations[1].covariance = IntMat(<<<<1, 1>>, <<1, 2>>>>, 2)
    /\ observations[2].covariance = IntMat(<<<<4>>>>, 1)

UnCorrNormed == normed_state # None /\ mixin = "UnCorrMixin"

\* C17: UnCorrMixin multiplies every column of the state by 1/sqrt(variance)
\* of that column, and the result equals the one of CorrMixin on the diagonal
\* covariance diag(v).
C17_UnCorrAgreesOnDiagonal ==
    UnCorrNormed =>
        /\ \A i \in 1..state.nr, j \in 1..state.nc :
               NMul(normed_state[1].v[i][j], NSqrt(obs_cov[1][j])) = state.v[i][j]
        /\ normed_state[1]
               = CorrMixin_mul_cinv(state,
                                    CorrMixin_get_chol_inverse(DiagFlat(obs_cov[1])))

C17_Witness ==
    /\ UnCorrNormed
    /\ \E j \in 1..state.nc : obs_cov[1][j] = NInt(2) /\ state.v[1][j] # Zero
    /\ \E j \in 1..state.nc : obs_cov[1][j] = NInt(4) /\ state.v[1][j] # Zero


\* ---- BaseAssimilation._get_analysis_time

MaxT == 4

RECURSIVE Ascending(_)
Ascending(S) ==
    IF S = {} THEN <<>>
    ELSE With(CHOOSE t \in S : \A u \in S : u <= t, LAMBDA last :
              Append(Ascending(S \ {last}), last))

\* the time coordinates of a state: increasing, at least one time
TimeAxes == {Ascending(S) : S \in (SUBSET (1..MaxT)) \ {{}}}

\* analysis_time: None, a time of the axis, or a time beside them
AnalysisTimes == {<<>>} \cup {<<t>> : t \in 0..(MaxT + 1)}

Nearest_last(times, t) == {Len(times)}

\* state.time.sel(time=t, method='nearest'): the positions at the smallest
\* distance from t; on a tie the index decides between the two neighbours
Nearest(times, t) ==
    {i \in 1..Len(times) :
        \A j \in 1..Len(times) : Abs(times[i] - t) <= Abs(times[j] - t)}

\* BaseAssimilation._get_analysis_time(state, analysis_time): the values it
\* can return, each with the warnings it emits
get_analysis_time(times, c_analysis_time) ==
    IF c_analysis_time = <<>>
    THEN {[value |-> times[Len(times)], warnings |-> <<>>]}
    ELSE IF \E i \in 1..Len(times) : times[i] = c_analysis_time[1]
    THEN {[value |-> c_analysis_time[1], warnings |-> <<>>]}
    ELSE {[value |-> times[i], warnings |-> <<"UserWarning">>] :
             i \in Nearest(times, c_analysis_time[1])}

InitTime ==
    /\ state_time \in TimeAxes
    /\ analysis_time \in AnalysisTimes
    /\ time_ret = None
    /\ NoEtkf /\ NoEvd /\ NoIEnKS /\ NoKetkf /\ NoNorm /\ NoObs /\ NoAssim /\ NoStep /\ NoAnalyser

\* time_ret = self._get_analysis_time(state, analysis_time)
GetAnalysisTime ==
    /\ time_ret = None
    /\ \E out \in get_analysis_time(state_time, analysis_time) : time_ret' = <<out>>
    /\ UNCHANGED <<state_time, analysis_time, etkf_vars, evd_vars, ienks_vars,
                   ketkf_vars, norm_vars, obs_vars, assim_vars, step_vars, analyser_vars>>

\* the caller passes another analysis_time
SetAnalysisTime ==
    /\ time_ret # None
    /\ \E new_time \in AnalysisTimes :
           /\ new_time # analysis_time
           /\ analysis_time' = new_time
    /\ time_ret' = None
    /\ UNCHANGED <<state_time, etkf_vars, evd_vars, ienks_vars, ketkf_vars,
                   norm_vars, obs_vars, assim_vars, step_vars, analyser_vars>>

NextTime == GetAnalysisTime \/ SetAnalysisTime

SpecTime == InitTime /\ [][NextTime]_vars

StateTimes == {state_time[i] : i \in 1..Len(state_time)}

\* C20: _get_analysis_time returns the last time of the state for
\* analysis_time None; analysis_time itself and no warning when it is a time
\* of the state; otherwise a time of the state nearest to analysis_time
\* together with a UserWarning.  The returned time is always a time of the
\* state.
C20_AnalysisTimeSelection ==
    time_ret # None =>
        /\ time_ret[1].value \in StateTimes
        /\ analysis_time = <<>> =>
               time_ret[1].value = state_time[Len(state_time)]
        /\ (analysis_time # <<>> /\ analysis_time[1] \in StateTimes) =>
               /\ time_ret[1].value = analysis_time[1]
               /\ time_ret[1].warnings = <<>>
        /\ (analysis_time # <<>> /\ analysis_time[1] \notin StateTimes) =>
               /\ \A t \in StateTimes :
                      Abs(time_ret[1].value - analysis_time[1])
                          <= Abs(t - analysis_time[1])
               /\ time_ret[1].warnings = <<"UserWarning">>

C20_Witness ==
    /\ time_ret # None
    /\ Len(state_time) >= 2
    /\ time_ret[1].warnings = <<"UserWarning">>
    /\ time_ret[1].value # state_time[Len(state_time)]
    /\ analysis_time[1] > state_time[1]


\* ---- Observation: the `obs` accessor of an xarray Dataset

MaxGrid == 2

\* the dimensions of the variable 'observations'; <<"absent">> for a Dataset
\* without the variable
ObsVarDims ==
    {<<"absent">>, <<"time", "obs_grid_1">>, <<"obs_grid_1", "time">>,
     <<"obs_grid_1">>, <<"ensemble", "time", "obs_grid_1">>, <<"time", "test_1">>}

\* the dimensions of the variable 'covariance'
CovVarDims ==
    {<<"absent">>, <<"obs_grid_1", "obs_grid_2">>, <<"obs_grid_2", "obs_grid_1">>,
     <<"time", "obs_grid_1", "obs_grid_2">>, <<"obs_grid_1", "test_1">>,
     <<"obs_grid_1">>}

\* a coordinate of a grid dimension: <<>> for none, <<first>> for the labels
\* first, first + 1, ...
GridCoords == {<<>>, <<0>>, <<10>>}

Datasets ==
    [observations : ObsVarDims, covariance : CovVarDims,
     n_1 : 1..MaxGrid, n_2 : 1..MaxGrid,
     coord_1 : GridCoords, coord_2 : GridCoords]

Present(var_dims) == var_dims # <<"absent">>

SeqSet(q) == {q[i] : i \in 1..Len(q)}

\* self.ds.dims.keys(): the dimensions of the variables and of the coordinates
DsDims(c_ds) ==
    (IF Present(c_ds.observations) THEN SeqSet(c_ds.observations) ELSE {})
    \cup (IF Present(c_ds.covariance) THEN SeqSet(c_ds.covariance) ELSE {})
    \cup (IF c_ds.coord_1 # <<>> THEN {"obs_grid_1"} ELSE {})
    \cup (IF c_ds.coord_2 # <<>> THEN {"obs_grid_2"} ELSE {})

\* the length of a dimension
DimSize(c_ds, d) ==
    IF d = "obs_grid_1" THEN c_ds.n_1
    ELSE IF d = "obs_grid_2" THEN c_ds.n_2
    ELSE 1

\* DataArray.shape
Shape(c_ds, var_dims) == Tab(LAMBDA i : DimSize(c_ds, var_dims[i]), Len(var_dims))

\* dims[-2:]
Last2(q) == IF Len(q) <= 2 THEN q ELSE SubSeq(q, Len(q) - 1, Len(q))

\* self.ds[d].to_index() of a grid dimension: the labels of its coordinate,
\* 0..n-1 for a dimension without coordinate, KeyError for an unknown name
ToIndex(c_ds, d) ==
    With(IF d = "obs_grid_1" THEN c_ds.coord_1 ELSE c_ds.coord_2, LAMBDA coord :
        IF d \notin DsDims(c_ds) THEN [raised |-> "KeyError"]
        ELSE [raised |-> "",
              value |-> Tab(LAMBDA i : (IF coord = <<>> THEN 0 ELSE coord[1]) + i - 1,
                            DimSize(c_ds, d))])

\* Observation._valid_dims
valid_dims(c_ds) ==
    \A d \in {"time", "obs_grid_1", "obs_grid_2"} : d \in DsDims(c_ds)

\* Observation._valid_obs
valid_obs(c_ds) ==
    IF ~Present(c_ds.observations) THEN [raised |-> "KeyError"]
    ELSE [raised |-> "",
          value |-> <<"time", "obs_grid_1">> = Last2(c_ds.observations)]

valid_cov_noshape(c_ds) ==
    IF ~Present(c_ds.covariance) \/ ~Present(c_ds.observations)
    THEN [raised |-> "KeyError"]
    ELSE With(ToIndex(c_ds, "obs_grid_1"), LAMBDA index_1 :
         With(ToIndex(c_ds, "obs_grid_2"), LAMBDA index_2 :
             [raised |-> "",
              value |-> /\ <<"obs_grid_1", "obs_grid_2">> = Last2(c_ds.covariance)
                        /\ index_1.raised = "" /\ index_2.raised = ""
                        /\ index_1.value = index_2.value]))

\* Observation._valid_cov
valid_cov(c_ds) ==
    IF ~Present(c_ds.covariance) \/ ~Present(c_ds.observations)
    THEN [raised |-> "KeyError"]
    ELSE With(<<"obs_grid_1", "obs_grid_2">> = Last2(c_ds.covariance),
              LAMBDA checked_dims :
         With(Shape(c_ds, c_ds.observations)[Len(c_ds.observations)],
              LAMBDA obs_grid_len :
         With(<<obs_grid_len, obs_grid_len>> = Shape(c_ds, c_ds.covariance),
              LAMBDA checked_shape :
         With(ToIndex(c_ds, "obs_grid_1"), LAMBDA index_1 :
         With(ToIndex(c_ds, "obs_grid_2"), LAMBDA index_2 :
             [raised |-> "",
              value |-> /\ checked_dims
                        /\ checked_shape
                        /\ index_1.raised = "" /\ index_2.raised = ""
                        /\ index_1.value = index_2.value])))))

\* Observation._valid_arrays
valid_arrays(c_ds) ==
    With(valid_obs(c_ds), LAMBDA v_obs :
        IF v_obs.raised = "KeyError" THEN FALSE
        ELSE IF ~v_obs.value THEN FALSE
        ELSE With(valid_cov(c_ds), LAMBDA v_cov :
                 IF v_cov.raised = "KeyError" THEN FALSE ELSE v_cov.value))

\* Observation.valid: the exception it raises ("" for none) and its value
Observation_valid(c_ds) ==
    [raised |-> "", value |-> valid_dims(c_ds) /\ valid_arrays(c_ds)]

InitObs ==
    /\ ds \in Datasets
    /\ valid_ret = None
    /\ NoEtkf /\ NoEvd /\ NoIEnKS /\ NoKetkf /\ NoNorm /\ NoTime /\ NoAssim /\ NoStep /\ NoAnalyser

\* valid_ret = ds.obs.valid
ReadValid ==
    /\ valid_ret = None
    /\ valid_ret' = <<Observation_valid(ds)>>
    /\ UNCHANGED <<ds, etkf_vars, evd_vars, ienks_vars, ketkf_vars, norm_vars,
                   time_vars, assim_vars, step_vars, analyser_vars>>

\* del ds[name]
DelVariable ==
    /\ \E name \in {"observations", "covariance"} :
           /\ Present(ds[name])
           /\ ds' = [ds EXCEPT ![name] = <<"absent">>]
    /\ valid_ret' = None
    /\ UNCHANGED <<etkf_vars, evd_vars, ienks_vars, ketkf_vars, norm_vars,
                   time_vars, assim_vars, step_vars, analyser_vars>>

NextObs == ReadValid \/ DelVariable

SpecObs == InitObs /\ [][NextObs]_vars

\* the labels of a grid dimension as the Dataset holds them
GridLabels(c_ds, d) ==
    With(IF d = "obs_grid_1" THEN c_ds.coord_1 ELSE c_ds.coord_2, LAMBDA coord :
        [i \in 1..DimSize(c_ds, d) |-> (IF coord = <<>> THEN 0 ELSE coord[1]) + i - 1])

\* C22: Observation.valid raises nothing and is a boolean; it is True exactly
\* when the Dataset has the dimensions time, obs_grid_1 and obs_grid_2, the
\* last two dimensions of 'observations' are (time, obs_grid_1), the last two
\* of 'covariance' are (obs_grid_1, obs_grid_2), the shape of 'covariance' is
\* (n, n) for the grid length n of 'observations', and both grids carry the
\* same labels; without 'observations' or 'covariance' it is False.
C22_ValidIsStructureTest ==
    valid_ret # None =>
        /\ valid_ret[1].raised = ""
        /\ valid_ret[1].value \in BOOLEAN
        /\ valid_ret[1].value <=>
               /\ {"time", "obs_grid_1", "obs_grid_2"} \subseteq DsDims(ds)
               /\ Present(ds.observations)
               /\ Present(ds.covariance)
               /\ Last2(ds.observations) = <<"time", "obs_grid_1">>
               /\ Last2(ds.covariance) = <<"obs_grid_1", "obs_grid_2">>
               /\ Len(ds.covariance) = 2
               /\ ds.n_2 = ds.n_1
               /\ GridLabels(ds, "obs_grid_1") = GridLabels(ds, "obs_grid_2")

C22_Witness ==
    /\ valid_ret # None
    /\ valid_ret[1].value
    /\ ds.n_1 = 2
    /\ ds.coord_1 = <<10>>


\* ---- BaseAssimilation: validation and assimilate

\* the attributes the class Observation defines
ObservationAttrs ==
    {"ds", "_valid_dims", "_valid_obs", "_valid_cov", "_valid_arrays", "valid",
     "_operator", "operator"}

\* observation.obs.<name>: AttributeError for a name the class does not define
HasObsAttr(name) == name \in ObservationAttrs

\* BaseAssimilation._validate_state(state): the exception raised ("" for none)
\* and the trace of what it consulted
validate_state(st) ==
    IF st.type # "DataArray" THEN [raised |-> "TypeError", trace |-> <<>>]
    ELSE IF ~st.valid
    THEN [raised |-> "StateError", trace |-> <<<<"state.valid", 0>>>>]
    ELSE [raised |-> "", trace |-> <<<<"state.valid", 0>>>>]

\* BaseAssimilation._validate_single_obs(observation), for the i-th observation
validate_single_obs(correlated, ob, i) ==
    IF ob.type # "Dataset" THEN [raised |-> "TypeError", trace |-> <<>>]
    ELSE IF ~Observation_valid(ob.ds).value
    THEN [raised |-> "ObservationError", trace |-> <<<<"obs.valid", i>>>>]
    ELSE IF ~HasObsAttr("correlated")
    THEN [raised |-> "AttributeError",
          trace |-> <<<<"obs.valid", i>>, <<"obs.correlated", i>>>>]
    ELSE IF ob.correlated # correlated
    THEN [raised |-> "ObservationError",
          trace |-> <<<<"obs.valid", i>>, <<"obs.correlated", i>>>>]
    ELSE [raised |-> "", trace |-> <<<<"obs.valid", i>>, <<"obs.correlated", i>>>>]

\* the loop of _validate_observations from the i-th element on
RECURSIVE ValidateFrom(_, _, _)
ValidateFrom(correlated, items, i) ==
    IF i > Len(items) THEN [raised |-> "", trace |-> <<>>]
    ELSE With(validate_single_obs(correlated, items[i], i), LAMBDA one :
        IF one.raised # ""
        THEN [raised |-> one.raised,
              trace |-> <<<<"_validate_single_obs", i>>>> \o one.trace]
        ELSE With(ValidateFrom(correlated, items, i + 1), LAMBDA rest :
            [raised |-> rest.raised,
             trace |-> <<<<"_validate_single_obs", i>>>> \o one.trace \o rest.trace]))

\* BaseAssimilation._validate_observations(observations): a list, set or
\* tuple is validated element by element, anything else as one observation
validate_observations(correlated, obs_arg) ==
    ValidateFrom(correlated, obs_arg.items, 1)


\* `not observations` that only sees the empty list
Falsy_empty_list_only(obs_arg) ==
    obs_arg.container = "list" /\ obs_arg.items = <<>>

\* `not observations`: an empty list or tuple, None, a Dataset without variables
Falsy(obs_arg) ==
    \/ obs_arg.container \in {"list", "tuple"} /\ obs_arg.items = <<>>
    \/ /\ obs_arg.container = "single"
       /\ \/ obs_arg.items[1].type = "NoneType"
          \/ /\ obs_arg.items[1].type = "Dataset"
             /\ ~Present(obs_arg.items[1].ds.observations)
             /\ ~Present(obs_arg.items[1].ds.covariance)

\* the events <<name, 1>>, ..., <<name, n>> of the transformers of a list
TransformTrace(name, transforms) ==
    Tab(LAMBDA j : <<name, transforms[j]>>, Len(transforms))

\* state.sel(time=[t]): a new object that holds the time t only
SelState(st, t) == [st EXCEPT !.id = st.id + 10, !.time = <<t>>]

\* obs.sel(time=[t]) for every observation: KeyError when one has no time t
SelObs(items, t) ==
    IF \E i \in 1..Len(items) : t \notin SeqSet(items[i].time)
    THEN [raised |-> "KeyError"]
    ELSE [raised |-> "",
          value |-> Tab(LAMBDA i : [items[i] EXCEPT !.time = <<t>>], Len(items))]

\* what update_state may return: None for the method of BaseAssimilation
\* itself, any state for the method of a subclass
Analyses(c_algo, back_state) ==
    IF c_algo.cls = "BaseAssimilation"
    THEN {[id |-> 0, type |-> "NoneType", valid |-> FALSE, time |-> <<>>]}
    ELSE {[id |-> 99, type |-> "DataArray", valid |-> v, time |-> back_state.time] :
             v \in BOOLEAN}

\* assimilate from the call of update_state on
Update(c_algo, back_state, obs_items, warnings, trace) ==
    {With(validate_state(analysis), LAMBDA checked :
        [raised |-> checked.raised,
         value |-> IF checked.raised = "" THEN <<analysis>> ELSE <<>>,
         warnings |-> warnings,
         trace |-> trace \o <<<<"update_state", 0>>>>
                   \o TransformTrace("post", c_algo.post_transform)
                   \o <<<<"_validate_state", 1>>>> \o checked.trace,
         passed |-> <<[state |-> back_state, observations |-> obs_items]>>]) :
     analysis \in Analyses(c_algo, back_state)}

\* assimilate from the selection of the analysis time on, for one outcome of
\* _get_analysis_time
Prepare(c_algo, st, obs_items, chosen, trace) ==
    With(trace \o <<<<"_get_analysis_time", 0>>>>, LAMBDA timed :
        IF c_algo.smoother
        THEN Update(c_algo, st, obs_items, chosen.warnings,
                    timed \o TransformTrace("pre", c_algo.pre_transform))
        ELSE With(SelObs(obs_items, chosen.value), LAMBDA selected :
            IF selected.raised # ""
            THEN {[raised |-> selected.raised, value |-> <<>>,
                   warnings |-> chosen.warnings, trace |-> timed, passed |-> <<>>]}
            ELSE Update(c_algo, SelState(st, chosen.value), selected.value,
                        chosen.warnings,
                        timed \o TransformTrace("pre", c_algo.pre_transform))))

\* BaseAssimilation.assimilate(state, observations, analysis_time): the
\* outcomes it can have.  `not observations` on a bare DataArray of several
\* elements raises ValueError (the truth value of an array is ambiguous).
assimilate(c_algo, st, obs_arg, c_analysis_time) ==
    IF obs_arg.container = "single" /\ obs_arg.items[1].type = "DataArray"
    THEN {[raised |-> "ValueError", value |-> <<>>, warnings |-> <<>>,
           trace |-> <<>>, passed |-> <<>>]}
    ELSE IF Falsy(obs_arg)
    THEN {[raised |-> "", value |-> <<st>>, warnings |-> <<"UserWarning">>,
           trace |-> <<>>, passed |-> <<>>]}
    ELSE With(validate_state(st), LAMBDA v_state :
         With(<<<<"_validate_state", 0>>>> \o v_state.trace, LAMBDA trace_1 :
        IF v_state.raised # ""
        THEN {[raised |-> v_state.raised, value |-> <<>>, warnings |-> <<>>,
               trace |-> trace_1, passed |-> <<>>]}
        ELSE With(validate_observations(c_algo.correlated, obs_arg), LAMBDA v_obs :
             With(trace_1 \o <<<<"_validate_observations", 0>>>> \o v_obs.trace,
                  LAMBDA trace_2 :
            IF v_obs.raised # ""
            THEN {[raised |-> v_obs.raised, value |-> <<>>, warnings |-> <<>>,
                   trace |-> trace_2, passed |-> <<>>]}
            ELSE UNION {Prepare(c_algo, st, obs_arg.items, chosen, trace_2) :
                           chosen \in get_analysis_time(st.time, c_analysis_time)}))))


AssimClasses == {"BaseAssimilation", "KETKFCorr", "KETKFUncorr", "LKETKF"}

\* the default of the parameter smoother in __init__
DefaultSmoother(cls) ==
    IF cls \in {"KETKFCorr", "KETKFUncorr"} THEN TRUE ELSE FALSE

\* cls(smoother=..., pre_transform=..., post_transform=...); smoother_arg is
\* <<>> for a call without the argument.  BaseAssimilation.__init__ stores
\* the arguments and sets self._correlated = True on the instance.
Construct(cls, smoother_arg, pre_transform, post_transform) ==
    [cls |-> cls,
     smoother_arg |-> smoother_arg,
     smoother |-> IF smoother_arg = <<>> THEN DefaultSmoother(cls) ELSE smoother_arg[1],
     correlated |-> TRUE,
     pre_transform |-> pre_transform,
     post_transform |-> post_transform]

Algorithms ==
    {Construct(cls, sm, tr, tr) :
        cls \in AssimClasses, sm \in {<<>>, <<TRUE>>, <<FALSE>>},
        tr \in {<<>>, <<1, 2>>}}

\* the states a caller passes: a valid state, an invalid one, a numpy array
StateObjects ==
    {[id |-> 1, type |-> "DataArray", valid |-> TRUE, time |-> <<1, 2>>],
     [id |-> 1, type |-> "DataArray", valid |-> FALSE, time |-> <<1, 2>>],
     [id |-> 1, type |-> "ndarray", valid |-> FALSE, time |-> <<1, 2>>]}

GoodDs ==
    [observations |-> <<"time", "obs_grid_1">>,
     covariance |-> <<"obs_grid_1", "obs_grid_2">>,
     n_1 |-> 2, n_2 |-> 2, coord_1 |-> <<0>>, coord_2 |-> <<0>>]

EmptyDs ==
    [observations |-> <<"absent">>, covariance |-> <<"absent">>,
     n_1 |-> 1, n_2 |-> 1, coord_1 |-> <<>>, coord_2 |-> <<>>]

ObsObjects ==
    {[type |-> "Dataset", ds |-> GoodDs, time |-> <<1, 2>>],
     [type |-> "Dataset", ds |-> GoodDs, time |-> <<1>>],
     [type |-> "Dataset", ds |-> [GoodDs EXCEPT !.covariance = <<"absent">>],
      time |-> <<1, 2>>],
     [type |-> "DataArray", ds |-> GoodDs, time |-> <<1, 2>>]}

NoneObject == [type |-> "NoneType", ds |-> EmptyDs, time |-> <<>>]

ObsArgs ==
    {[container |-> "single", items |-> <<ob>>] :
        ob \in ObsObjects \cup {NoneObject,
                                [type |-> "Dataset", ds |-> EmptyDs, time |-> <<>>]}}
    \cup {[container |-> c, items |-> items] :
             c \in {"list", "tuple"},
             items \in {<<>>} \cup {<<ob>> : ob \in ObsObjects}
                       \cup {<<a, b>> : a \in ObsObjects, b \in ObsObjects}}

CallArgs ==
    [state : StateObjects, observations : ObsArgs,
     analysis_time : {<<>>, <<1>>, <<3>>}]

InitAssim ==
    /\ algo \in Algorithms
    /\ call_args \in CallArgs
    /\ outcome = None
    /\ NoEtkf /\ NoEvd /\ NoIEnKS /\ NoKetkf /\ NoNorm /\ NoTime /\ NoObs
    /\ NoStep /\ NoAnalyser

\* outcome = algo.assimilate(state, observations, analysis_time)
Assimilate ==
    /\ outcome = None
    /\ \E out \in assimilate(algo, call_args.state, call_args.observations,
                             call_args.analysis_time) :
           outcome' = <<[call |-> "assimilate"] @@ out>>
    /\ UNCHANGED <<algo, call_args, etkf_vars, evd_vars, ienks_vars, ketkf_vars,
                   norm_vars, time_vars, obs_vars, step_vars, analyser_vars>>

\* algo._validate_observations(observations)
ValidateObservations ==
    /\ outcome = None
    /\ outcome' = <<[call |-> "_validate_observations"]
                    @@ validate_observations(algo.correlated, call_args.observations)>>
    /\ UNCHANGED <<algo, call_args, etkf_vars, evd_vars, ienks_vars, ketkf_vars,
                   norm_vars, time_vars, obs_vars, step_vars, analyser_vars>>

\* algo._validate_single_obs(observations) for a single observation
ValidateSingleObs ==
    /\ outcome = None
    /\ call_args.observations.container = "single"
    /\ outcome' = <<[call |-> "_validate_single_obs"]
                    @@ validate_single_obs(algo.correlated,
                                           call_args.observations.items[1], 1)>>
    /\ UNCHANGED <<algo, call_args, etkf_vars, evd_vars, ienks_vars, ketkf_vars,
                   norm_vars, time_vars, obs_vars, step_vars, analyser_vars>>

\* the caller drops the outcome
ReturnToCaller ==
    /\ outcome # None
    /\ outcome' = None
    /\ UNCHANGED <<algo, call_args, etkf_vars, evd_vars, ienks_vars, ketkf_vars,
                   norm_vars, time_vars, obs_vars, step_vars, analyser_vars>>

NextAssim == Assimilate \/ ValidateObservations \/ ValidateSingleObs \/ ReturnToCaller

SpecAssim == InitAssim /\ [][NextAssim]_vars

\* the number of events <<name, i>> in a trace
Count(trace, name, i) ==
    Cardinality({n \in 1..Len(trace) : trace[n] = <<name, i>>})

Called(name) == outcome # None /\ outcome[1].call = name

\* C21: _validate_single_obs raises TypeError for an argument that is no
\* Dataset, ObservationError for a Dataset whose obs.valid is false, and for
\* a valid Dataset either ObservationError (correlation flag differs) or
\* nothing, after consulting obs.valid exactly once; _validate_observations
\* that returns has applied it exactly once to every element.
C21_ValidationContract ==
    /\ Called("_validate_single_obs") =>
           With(call_args.observations.items[1], LAMBDA ob :
               /\ ob.type # "Dataset" => outcome[1].raised = "TypeError"
               /\ (ob.type = "Dataset" /\ ~Observation_valid(ob.ds).value) =>
                      outcome[1].raised = "ObservationError"
               /\ (ob.type = "Dataset" /\ Observation_valid(ob.ds).value) =>
                      /\ outcome[1].raised \in {"", "ObservationError"}
                      /\ Count(outcome[1].trace, "obs.valid", 1) = 1)
    /\ (Called("_validate_observations") /\ outcome[1].raised = "") =>
           \A i \in 1..Len(call_args.observations.items) :
               Count(outcome[1].trace, "_validate_single_obs", i) = 1


\* the names of the events of a trace, in order, without the events of the
\* calls nested in a validation
Steps(trace) ==
    SelectSeq(trace, LAMBDA e : e[1] \notin {"state.valid", "_validate_single_obs",
                                             "obs.valid"})

\* the caller gave no observation: an empty list or tuple, None, or a Dataset
\* that holds no variable
NoObservationGiven ==
    With(call_args.observations, LAMBDA o :
        \/ o.items = <<>>
        \/ o.container = "single" /\ o.items[1].type = "NoneType"
        \/ o.container = "single" /\ o.items[1].type = "Dataset"
              /\ o.items[1].ds = EmptyDs)

\* every element of the observations is a Dataset whose obs.valid is true
AllObsValid ==
    \A i \in 1..Len(call_args.observations.items) :
        /\ call_args.observations.items[i].type = "Dataset"
        /\ Observation_valid(call_args.observations.items[i].ds).value

\* the steps of a whole assimilation
FullOrder ==
    <<<<"_validate_state", 0>>, <<"_validate_observations", 0>>,
      <<"_get_analysis_time", 0>>>>
    \o TransformTrace("pre", algo.pre_transform)
    \o <<<<"update_state", 0>>>>
    \o TransformTrace("post", algo.post_transform)
    \o <<<<"_validate_state", 1>>>>

\* C23: assimilate with non-empty observations, a valid state and valid
\* observations that hold the analysis time validates the state, validates
\* the observations, determines the analysis time, applies the
\* pre-transforms in list order, calls update_state exactly once, applies
\* the post-transforms in list order and validates the analysis, in this
\* order; update_state is not called when a validation raised, and an
\* analysis that is no valid state is never returned.
C23_AssimilateOrder ==
    (Called("assimilate") /\ ~NoObservationGiven) =>
        /\ (/\ call_args.state.valid
            /\ AllObsValid
            /\ outcome[1].raised # "KeyError") =>
               Steps(outcome[1].trace) = FullOrder
        /\ (~call_args.state.valid \/ ~AllObsValid) =>
               /\ outcome[1].raised # ""
               /\ Count(outcome[1].trace, "update_state", 0) = 0
        /\ outcome[1].raised = "" =>
               /\ outcome[1].value[1].type = "DataArray"
               /\ outcome[1].value[1].valid

\* C24: when no observation is given, assimilate emits a UserWarning and
\* returns the given background state object itself; it validates nothing,
\* applies no transform and does not call update_state.
C24_NoObservationReturnsBackground ==
    (Called("assimilate") /\ NoObservationGiven) =>
        /\ outcome[1].raised = ""
        /\ outcome[1].value = <<call_args.state>>
        /\ outcome[1].warnings = <<"UserWarning">>
        /\ outcome[1].trace = <<>>
        /\ outcome[1].passed = <<>>

C24_Witness ==
    /\ Called("assimilate")
    /\ call_args.observations.container = "single"
    /\ call_args.observations.items[1].type = "NoneType"
    /\ ~call_args.state.valid
    /\ algo.pre_transform # <<>>
    /\ outcome[1].value = <<call_args.state>>

\* C25: a KETKFCorr or KETKFUncorr filter constructed without a smoother
\* argument has smoother False, and assimilate passes to update_state the
\* state and the observations restricted to the single analysis time unless
\* smoother is True, in which case it passes the whole state.
C25_DefaultIsFilteringMode ==
    /\ (algo # None /\ algo.cls \in {"KETKFCorr", "KETKFUncorr"}
           /\ algo.smoother_arg = <<>>) => algo.smoother = FALSE
    /\ (Called("assimilate") /\ outcome[1].passed # <<>>) =>
           IF algo.smoother_arg = <<TRUE>>
           THEN outcome[1].passed[1].state = call_args.state
           ELSE /\ Len(outcome[1].passed[1].state.time) = 1
                /\ \A i \in 1..Len(outcome[1].passed[1].observations) :
                       outcome[1].passed[1].observations[i].time
                           = outcome[1].passed[1].state.time


\* ---- evd: clamping, regularization, inversion ---------------------------
\* the eigenvalue that belongs to column i of the returned eigenvectors,
\* computed from the input: v_i^T tensor v_i for the orthonormal columns v_i
RawEigenvalue(i) ==
    MatMul(Transpose(evd_ret[1][2]), MatMul(tensor, evd_ret[1][2])).v[i][i]

Max0(x) == IF NLess(x, Zero) THEN Zero ELSE x

\* C26: every eigenvalue evd returns is max(raw eigenvalue, 0) + reg_value
\* and so at least reg_value; the returned inverse eigenvalues are the
\* reciprocals of the returned eigenvalues (infinite for an eigenvalue 0);
\* the fourth value is the transpose of the eigenvector matrix.
C26_ClampShiftInvert ==
    evd_ret # None =>
        /\ \A i \in 1..tensor.nr :
               /\ evd_ret[1][1][i] = NAdd(Max0(RawEigenvalue(i)), reg)
               /\ ~NLess(evd_ret[1][1][i], reg)
               /\ IF evd_ret[1][1][i] = Zero
                  THEN evd_ret[1][3][i] = Inf
                  ELSE NMul(evd_ret[1][1][i], evd_ret[1][3][i]) = One
        /\ Len(evd_ret[1][1]) = tensor.nr /\ Len(evd_ret[1][3]) = tensor.nr
        /\ evd_ret[1][4].nr = tensor.nr /\ evd_ret[1][4].nc = tensor.nr
        /\ \A i, j \in 1..tensor.nr :
               evd_ret[1][4].v[i][j] = evd_ret[1][2].v[j][i]

C26_Witness ==
    /\ evd_ret # None
    /\ tensor.nr = 3
    /\ reg = NRat(1, 2)
    /\ \E i \in 1..3 : NLess(RawEigenvalue(i), Zero) /\ evd_ret[1][1][i] = reg
    /\ \E i \in 1..3 : NLess(Zero, RawEigenvalue(i))
    /\ \E i, j \in 1..3 : evd_ret[1][2].v[i][j] # evd_ret[1][2].v[j][i]


\* ---- ETKF: the transform matrix -----------------------------------------
\* C27: the w_perts that forward returns is the symmetric square root of
\* (k-1) times the analysed covariance: w_perts is symmetric and
\* w_perts w_perts = (k-1) cov_analysed.
C27_SymmetricSquareRoot ==
    (ret # None /\ ret[1].raised = "") =>
        With(ret[1].w_perts, LAMBDA w :
            /\ w.nr = normed_perts.nr /\ w.nc = normed_perts.nr
            /\ w = Transpose(w)
            /\ MatMul(w, w) = MatScale(NInt(normed_perts.nr - 1), ret[1].cov_analysed))

C27_Witness ==
    /\ ret # None /\ ret[1].raised = ""
    /\ normed_perts.nr = 3
    /\ inf_factor = NInt(2)
    /\ \E i, j \in 1..3 : i # j /\ ret[1].w_perts.v[i][j] # Zero
    /\ \E i \in 1..3 : ~IsRational(ret[1].w_perts.v[i][i])


\* ---- IEnKS: the private methods of one step -----------------------------
\* _update_weights(weights, normed_perts, normed_obs) with the values of its
\* local variables: one record for every value torch.svd may return
UpdateWeightsSteps(c_kind, c_tau, c_epsilon, c_weights, perts, obs) ==
    LET ens_size == c_weights.nr
    IN  UNION {
          With(get_dh_dw(c_kind, c_epsilon, perts, d[2]), LAMBDA dh_dw :
          With(get_gradient(d[1], dh_dw, obs, ens_size), LAMBDA grad :
          With(UpdatedPrec(c_tau, d[3], dh_dw, ens_size), LAMBDA updated_prec :
              {With(update_covariance(ens_size, usv), LAMBDA cp :
                   [call |-> "_update_weights",
                    w_mean_old |-> d[1], w_prec |-> d[3], dh_dw |-> dh_dw,
                    grad |-> grad, updated_prec |-> updated_prec, w_cov |-> cp[1],
                    w_mean |-> MatAdd(d[1], MatScale(NNeg(c_tau), MatMul(cp[1], grad))),
                    w_perts |-> cp[2]]) :
                  usv \in Svd(updated_prec)}))) :
            d \in {decompose_weights(c_weights, ens_size, usv) :
                      usv \in Svd(split_weights(c_weights, ens_size)[2])}}

\* internals = module._split_weights(weights, ens_size)
SplitWeights ==
    /\ internals = None
    /\ With(split_weights(weights, weights.nr), LAMBDA sp :
           internals' = <<[call |-> "_split_weights",
                           w_mean |-> sp[1], w_perts |-> sp[2]]>>)
    /\ UNCHANGED <<etkf_vars, evd_vars, ienks_vars, ketkf_vars, norm_vars, time_vars,
                   obs_vars, assim_vars, analyser_vars>>

\* internals = module._update_weights(weights, normed_perts, normed_obs)
UpdateWeights ==
    /\ internals = None
    /\ Decomposes(normed_perts, normed_obs)
    /\ \E r \in UpdateWeightsSteps(kind, tau, epsilon, weights, normed_perts,
                                   normed_obs) :
           internals' = <<r>>
    /\ UNCHANGED <<etkf_vars, evd_vars, ienks_vars, ketkf_vars, norm_vars, time_vars,
                   obs_vars, assim_vars, analyser_vars>>

\* the caller drops the values
DropInternals ==
    /\ internals # None
    /\ internals' = None
    /\ UNCHANGED <<etkf_vars, evd_vars, ienks_vars, ketkf_vars, norm_vars, time_vars,
                   obs_vars, assim_vars, analyser_vars>>

\* module.tau is assigned between the calls
SetTauBetween == internals = None /\ SetTau

NextSteps == SetTauBetween \/ SplitWeights \/ UpdateWeights \/ DropInternals

SpecSteps == InitIEnKS /\ [][NextSteps]_vars

Did(name) == internals # None /\ internals[1].call = name

\* the sum of the entries of row i of A
RowSum(A, i) == LET c(l) == A.v[i][l] IN NSum(Tab(c, A.nc))

\* C28 (as stated): _split_weights returns w_mean = the row mean of W with 1
\* subtracted from its diagonal and a w_perts with zero row mean such that
\* w_mean + w_perts = W; for identity weights w_mean = 0.
C28_ZeroMeanPerturbations ==
    Did("_split_weights") =>
        With(weights.nr, LAMBDA k :
            /\ \A i \in 1..k :
                   NMul(NInt(k), internals[1].w_mean.v[i][1])
                       = NSub(RowSum(weights, i), One)
            /\ \A i \in 1..k : RowSum(internals[1].w_perts, i) = Zero
            /\ ColBroadcastAdd(internals[1].w_mean, internals[1].w_perts) = weights
            /\ weights = Identity(k) =>
                   \A i \in 1..k : internals[1].w_mean.v[i][1] = Zero)

\* C28 (amended): _split_weights returns w_mean = the row mean of W with 1
\* subtracted from its diagonal and a w_perts whose rows have the mean 1/k
\* (w_perts minus the identity has zero row mean) such that
\* w_mean + w_perts = W; for identity weights w_mean = 0 and w_perts = W.
C28_CentredPerturbations ==
    Did("_split_weights") =>
        With(weights.nr, LAMBDA k :
            /\ internals[1].w_mean.nr = k /\ internals[1].w_mean.nc = 1
            /\ \A i \in 1..k :
                   NMul(NInt(k), internals[1].w_mean.v[i][1])
                       = NSub(RowSum(weights, i), One)
            /\ \A i \in 1..k : RowSum(internals[1].w_perts, i) = One
            /\ ColBroadcastAdd(internals[1].w_mean, internals[1].w_perts) = weights
            /\ weights = Identity(k) =>
                   /\ \A i \in 1..k : internals[1].w_mean.v[i][1] = Zero
                   /\ internals[1].w_perts = weights)

C28_Witness ==
    /\ Did("_split_weights")
    /\ weights.nr = 3
    /\ weights # Identity(3)
    /\ internals[1].w_mean.v[1][1] # internals[1].w_mean.v[3][1]


\* entry (i, j) of (1-tau) P + tau (D D^T + (k-1) I)
DampedEntry(c_tau, P, D, i, j) ==
    LET prod(l) == NMul(D.v[i][l], D.v[j][l])
    IN  NAdd(NMul(NSub(One, c_tau), P.v[i][j]),
             NMul(c_tau, NAdd(NSum(Tab(prod, D.nc)),
                              IF i = j THEN NInt(P.nr - 1) ELSE Zero)))

\* C29: in one step the updated precision is
\* (1-tau) w_prec + tau (dH/dW dH/dW^T + (k-1) I), the covariance is its
\* inverse and the new mean is w_mean - tau cov grad; with tau = 0 the mean
\* and the precision stay as they were; the dH/dW of the bundle module is
\* normed_perts / epsilon, whatever the weights.
C29_DampedStep ==
    Did("_update_weights") =>
        With(internals[1], LAMBDA r :
        With(weights.nr, LAMBDA k :
            /\ \A i, j \in 1..k :
                   r.updated_prec.v[i][j] = DampedEntry(tau, r.w_prec, r.dh_dw, i, j)
            /\ MatMul(r.updated_prec, r.w_cov) = Identity(k)
            /\ \A i \in 1..k :
                   r.w_mean.v[i][1]
                       = NSub(r.w_mean_old.v[i][1],
                              NMul(tau, MatMul(r.w_cov, r.grad).v[i][1]))
            /\ tau = Zero => (r.w_mean = r.w_mean_old /\ r.updated_prec = r.w_prec)
            /\ kind = "bundle" =>
                   /\ MatScale(epsilon, r.dh_dw) = normed_perts
                   /\ \A W \in WeightsSet(k) :
                          get_dh_dw(kind, epsilon, normed_perts, W) = r.dh_dw
            /\ <<r.w_mean, r.w_perts>>
                   \in update_weights(kind, tau, epsilon, weights, normed_perts,
                                      normed_obs)))

C29_Witness ==
    /\ Did("_update_weights")
    /\ kind = "bundle"
    /\ tau = NRat(1, 2)
    /\ weights.nr = 3
    /\ internals[1].w_mean # internals[1].w_mean_old
    /\ internals[1].updated_prec # internals[1].w_prec

\* ---- ETKFAnalyser: the inflation factor and its weight module -----------
\* torch.tensor(new_factor): the factors drawn are exact in a float tensor
ToTensor(x) == [type |-> "Tensor", value |-> x]

\* the module setter: a tensor is stored as it is, anything else converted
ModuleFactor(new_factor) ==
    IF new_factor.type = "Tensor" THEN new_factor ELSE ToTensor(new_factor.value)

ETKFWeightsModule_init_default(new_factor) ==
    [_inf_factor |-> ToTensor(One), reassigned |-> FALSE]

\* ETKFWeightsModule(inf_factor); reassigned records a later use of the
\* module's own inf_factor setter
ETKFWeightsModule_init(new_factor) ==
    [_inf_factor |-> ModuleFactor(new_factor), reassigned |-> FALSE]

\* the factors a caller assigns: Python floats and tensors
Factors ==
    {[type |-> "float", value |-> f] : f \in InfFactors}
    \cup {ToTensor(f) : f \in InfFactors}

\* ETKFAnalyser(inf_factor): __init__ has run both statements of the setter
InitAnalyser ==
    /\ \E f \in Factors :
           analyser = [_inf_factor |-> f, gen_weights |-> ETKFWeightsModule_init(f)]
    /\ setter_pc = None
    /\ perts_ret = None
    /\ NoEtkf /\ NoEvd /\ NoIEnKS /\ NoKetkf /\ NoNorm /\ NoTime /\ NoObs /\ NoAssim
    /\ NoStep

\* analyser.inf_factor = new_factor, first statement:
\* self._inf_factor = new_factor
SetterAssign ==
    /\ setter_pc = None
    /\ \E new_factor \in Factors :
           /\ analyser' = [analyser EXCEPT !._inf_factor = new_factor]
           /\ setter_pc' = <<new_factor>>
    /\ UNCHANGED <<perts_ret, etkf_vars, evd_vars, ienks_vars, ketkf_vars, norm_vars,
                   time_vars, obs_vars, assim_vars, step_vars>>

\* second statement: self.gen_weights = ETKFWeightsModule(new_factor)
SetterRebuild ==
    /\ setter_pc # None
    /\ analyser' = [analyser EXCEPT
                        !.gen_weights = ETKFWeightsModule_init(setter_pc[1])]
    /\ setter_pc' = None
    /\ UNCHANGED <<perts_ret, etkf_vars, evd_vars, ienks_vars, ketkf_vars, norm_vars,
                   time_vars, obs_vars, assim_vars, step_vars>>

\* analyser.gen_weights.inf_factor = new_factor: the setter of the module
ModuleSetter ==
    /\ \E new_factor \in Factors :
           analyser' = [analyser EXCEPT
                            !.gen_weights = [_inf_factor |-> ModuleFactor(new_factor),
                                             reassigned |-> TRUE]]
    /\ UNCHANGED <<setter_pc, perts_ret, etkf_vars, evd_vars, ienks_vars, ketkf_vars,
                   norm_vars, time_vars, obs_vars, assim_vars, step_vars>>

\* get_analysis_perts in another thread: the weights come from
\* self.gen_weights; reported is analyser.inf_factor at that moment
GetAnalysisPerts ==
    /\ perts_ret = None
    /\ perts_ret' = <<[reported |-> analyser._inf_factor.value,
                       used |-> analyser.gen_weights._inf_factor.value,
                       during_assignment |-> setter_pc # None]>>
    /\ UNCHANGED <<analyser, setter_pc, etkf_vars, evd_vars, ienks_vars, ketkf_vars,
                   norm_vars, time_vars, obs_vars, assim_vars, step_vars>>

\* the caller drops the perturbations
DropPerts ==
    /\ perts_ret # None
    /\ perts_ret' = None
    /\ UNCHANGED <<analyser, setter_pc, etkf_vars, evd_vars, ienks_vars, ketkf_vars,
                   norm_vars, time_vars, obs_vars, assim_vars, step_vars>>

NextAnalyser ==
    SetterAssign \/ SetterRebuild \/ ModuleSetter \/ GetAnalysisPerts \/ DropPerts

SpecAnalyser == InitAnalyser /\ [][NextAnalyser]_vars

FactorsAgree ==
    analyser._inf_factor.value = analyser.gen_weights._inf_factor.value

====
